---------------------------- MODULE Spec2Model ----------------------------
(***************************************************************************)
(* DevOrbit: the story point estimator (utils/storyPointEstimator), the    *)
(* Linear/GitHub activity correlator (components/CommentAnalysis) and the  *)
(* workload recommendations of LinearAPI (utils/linearApi).                *)
(*                                                                         *)
(* JavaScript numbers are modelled as exact rationals together with the    *)
(* IEEE special values NaN, +Infinity and -Infinity; Math.sqrt is rounded  *)
(* down to two decimals when its result is irrational.  Strings are TLA+   *)
(* strings; an optional field (undefined / null in the source) is a        *)
(* sequence of length 0 or 1.                                              *)
(***************************************************************************)
EXTENDS Integers, Sequences, FiniteSets, TLC

VARIABLES
  linearData,        \* StoryPointEstimator.linearData.issues
  userPerformance,   \* StoryPointEstimator.userPerformance
  personalVelocity,  \* StoryPointEstimator.personalVelocity
  issues,            \* the issue list handed to the operation in progress
  op,                \* the operation that returned last
  calls,             \* how many times in a row it was called on this input
  result,            \* what that operation returned
  commits,           \* the commits handed to correlateLinearWithGitHub
  pullRequests,      \* the pull requests handed to correlateLinearWithGitHub
  teamPerformance,   \* the summary handed to generateWorkloadRecommendations
  dataCorrelations,  \* data.correlations of the correlation panel
  adjustedScore,     \* the score handed to roundToFibonacci
  user,              \* AuthProvider's user state
  token,             \* AuthProvider's token state
  localStorage,      \* the keys github_token and github_user of localStorage
  requests           \* the calls of fetchUserInfo that await their response

\* The state of the AuthProvider
session == <<user, token, localStorage, requests>>

vars == <<linearData, userPerformance, personalVelocity, issues, op, calls, result,
          commits, pullRequests, teamPerformance, dataCorrelations,
          adjustedScore, user, token, localStorage, requests>>

---------------------------------------------------------------------------
(* Optional values: undefined / null is <<>>, a present value v is <<v>>.  *)

None == <<>>
Some(v) == <<v>>
IsSome(o) == Len(o) > 0
Get(o) == o[1]

\* Nobody is signed in and nothing is stored: useState(null), an empty localStorage
SignedOut ==
  /\ user = None
  /\ token = None
  /\ localStorage = [github_token |-> None, github_user |-> None]
  /\ requests = {}

---------------------------------------------------------------------------
(* JavaScript numbers.                                                     *)

RECURSIVE Gcd(_, _)
Gcd(a, b) == IF b = 0 THEN a ELSE Gcd(b, a % b)

AbsInt(i) == IF i < 0 THEN -i ELSE i

\* The rational n/d (d # 0) in normal form: positive denominator, no common factor.
Rat(n, d) ==
  LET g == Gcd(AbsInt(n), AbsInt(d))
      s == IF d < 0 THEN -1 ELSE 1
  IN  [k |-> "fin", n |-> (s * n) \div g, d |-> (s * d) \div g]

Fin(i) == [k |-> "fin", n |-> i, d |-> 1]
NaN == [k |-> "nan", n |-> 0, d |-> 1]
PInf == [k |-> "inf", n |-> 1, d |-> 1]
NInf == [k |-> "inf", n |-> -1, d |-> 1]

IsNaN(x) == x.k = "nan"
IsFin(x) == x.k = "fin"
IsInf(x) == x.k = "inf"
Sign(x) == IF x.n > 0 THEN 1 ELSE IF x.n < 0 THEN -1 ELSE 0
Inf(s) == IF s > 0 THEN PInf ELSE NInf

Neg(x) == [x EXCEPT !.n = -x.n]

Add(x, y) ==
  CASE IsNaN(x) \/ IsNaN(y) -> NaN
    [] IsInf(x) /\ IsInf(y) -> IF x.n = y.n THEN x ELSE NaN
    [] IsInf(x) -> x
    [] IsInf(y) -> y
    [] OTHER -> Rat(x.n * y.d + y.n * x.d, x.d * y.d)

Sub(x, y) == Add(x, Neg(y))

Mul(x, y) ==
  CASE IsNaN(x) \/ IsNaN(y) -> NaN
    [] IsInf(x) \/ IsInf(y) ->
         IF Sign(x) * Sign(y) = 0 THEN NaN ELSE Inf(Sign(x) * Sign(y))
    [] OTHER -> Rat(x.n * y.n, x.d * y.d)

Div(x, y) ==
  CASE IsNaN(x) \/ IsNaN(y) -> NaN
    [] IsInf(x) /\ IsInf(y) -> NaN
    [] IsInf(x) -> IF Sign(y) < 0 THEN Neg(x) ELSE x
    [] IsInf(y) -> Fin(0)
    [] y.n = 0 -> IF x.n = 0 THEN NaN ELSE Inf(Sign(x))
    [] OTHER -> Rat(x.n * y.d, x.d * y.n)

\* x < y as JavaScript compares: false when either side is NaN.
Lt(x, y) ==
  CASE IsNaN(x) \/ IsNaN(y) -> FALSE
    [] IsInf(x) /\ IsInf(y) -> x.n < y.n
    [] IsInf(x) -> x.n < 0
    [] IsInf(y) -> y.n > 0
    [] OTHER -> x.n * y.d < y.n * x.d

Gt(x, y) == Lt(y, x)
Le(x, y) == ~IsNaN(x) /\ ~IsNaN(y) /\ ~Lt(y, x)
Ge(x, y) == Le(y, x)

MathMax(x, y) == IF IsNaN(x) \/ IsNaN(y) THEN NaN ELSE IF Lt(x, y) THEN y ELSE x
MathMin(x, y) == IF IsNaN(x) \/ IsNaN(y) THEN NaN ELSE IF Lt(y, x) THEN y ELSE x
MathAbs(x) == IF IsNaN(x) THEN NaN ELSE [x EXCEPT !.n = AbsInt(x.n)]

\* The largest r in lo..hi with r * r <= v (lo * lo <= v).
RECURSIVE ISqrtIn(_, _, _)
ISqrtIn(v, lo, hi) ==
  IF lo >= hi THEN lo
  ELSE LET mid == (lo + hi + 1) \div 2
       IN  IF mid * mid <= v THEN ISqrtIn(v, mid, hi) ELSE ISqrtIn(v, lo, mid - 1)

ISqrt(v) == ISqrtIn(v, 0, IF v < 46340 THEN v ELSE 46340)

\* Math.sqrt, exact on squares of hundredths and rounded down to hundredths otherwise.
MathSqrt(x) ==
  CASE IsNaN(x) -> NaN
    [] IsInf(x) -> IF x.n > 0 THEN PInf ELSE NaN
    [] x.n < 0 -> NaN
    [] OTHER -> Rat(ISqrt((x.n * 10000) \div x.d), 100)

\* Math.round: the nearest integer, halves towards +Infinity.
Floor(x) == x.n \div x.d
MathRound(x) == IF IsFin(x) THEN Fin(Floor(Add(x, Rat(1, 2)))) ELSE x

\* a || b on numbers: 0 and NaN are falsy.
Falsy(x) == IsNaN(x) \/ (IsFin(x) /\ x.n = 0)
OrElse(x, dflt) == IF Falsy(x) THEN dflt ELSE x

\* array.reduce((sum, e) => sum + f(e), 0)
RECURSIVE SumSeq(_)
SumSeq(s) == IF s = <<>> THEN Fin(0) ELSE Add(SumSeq(SubSeq(s, 1, Len(s) - 1)), s[Len(s)])

\* array.slice(0, n)
Slice(s, n) == SubSeq(s, 1, IF Len(s) < n THEN Len(s) ELSE n)

---------------------------------------------------------------------------
(* JavaScript strings.                                                     *)

UpperCase == "ABCDEFGHIJKLMNOPQRSTUVWXYZ"
LowerCase == "abcdefghijklmnopqrstuvwxyz"

CharAt(s, i) == SubSeq(s, i, i)

UpperSet == {CharAt(UpperCase, i) : i \in 1..Len(UpperCase)}
UpperToLower ==
  [c \in UpperSet |-> CharAt(LowerCase, CHOOSE i \in 1..Len(UpperCase) : CharAt(UpperCase, i) = c)]

LowerChar(c) == IF c \in UpperSet THEN UpperToLower[c] ELSE c

\* String.prototype.toLowerCase
RECURSIVE toLowerCase(_)
toLowerCase(s) ==
  IF Len(s) = 0 THEN s
  ELSE IF Len(s) = 1 THEN LowerChar(s)
  ELSE LET half == Len(s) \div 2
       IN  toLowerCase(SubSeq(s, 1, half)) \o toLowerCase(SubSeq(s, half + 1, Len(s)))

\* String.prototype.includes: substring test
includes(s, t) ==
  \E i \in 1..(Len(s) - Len(t) + 1) : SubSeq(s, i, i + Len(t) - 1) = t

\* The pieces of two adjacent parts of a string: the last piece of the first
\* part and the first piece of the second are one piece
JoinPieces(a, b) ==
  SubSeq(a, 1, Len(a) - 1) \o <<a[Len(a)] \o b[1]>> \o SubSeq(b, 2, Len(b))

\* String.prototype.split(' '): the pieces between single spaces, empty ones
\* kept; computed by halves of the string
RECURSIVE split(_)
split(s) ==
  IF Len(s) = 0 THEN <<"">>
  ELSE IF Len(s) = 1 THEN (IF s = " " THEN <<"", "">> ELSE <<s>>)
  ELSE LET half == Len(s) \div 2
       IN  JoinPieces(split(SubSeq(s, 1, half)), split(SubSeq(s, half + 1, Len(s))))

\* Array.prototype.includes
Contains(seq, e) == \E i \in 1..Len(seq) : seq[i] = e

\* Array.prototype.indexOf, 0-based, -1 when absent
indexOf(seq, e) ==
  IF Contains(seq, e) THEN (CHOOSE i \in 1..Len(seq) : seq[i] = e /\ \A j \in 1..(i - 1) : seq[j] # e) - 1
  ELSE -1

\* The number of elements of seq that satisfy Test
Count(seq, Test(_)) == Len(SelectSeq(seq, Test))

\* Number.prototype.toFixed(1) of a finite number: one decimal, halves away from zero
toFixed1(x) ==
  LET a == MathAbs(x)
      t == (a.n * 10 + (a.d \div 2)) \div a.d
      body == ToString(t \div 10) \o "." \o ToString(t % 10)
  IN  CASE IsNaN(x) -> "NaN"
        [] IsInf(x) -> IF x.n > 0 THEN "Infinity" ELSE "-Infinity"
        [] OTHER -> IF x.n < 0 /\ t > 0 THEN "-" \o body ELSE body

---------------------------------------------------------------------------
(* Issues.  An issue is a record                                           *)
(*   id, identifier, title : strings                                       *)
(*   description           : optional string                               *)
(*   labels                : optional sequence of label names              *)
(*                           (labels.edges[*].node.name)                   *)
(*   priority              : 0 (none), 1 (urgent) .. 4 (low)               *)
(*   team                  : optional team id                              *)
(*   state                 : state.type                                    *)
(*   assignee              : optional [id, name, displayName, email]       *)
(*   estimate              : story points, 0 when unestimated              *)
(*   createdAt, completedAt: optional timestamps, in days                  *)
(* A timestamp that is absent parses to an invalid Date, whose value is    *)
(* NaN; a null one parses to the epoch, day 0.                             *)

DateValue(t) == IF IsSome(t) THEN Fin(Get(t)) ELSE NaN

\* issue.assignee?.id and issue.team?.id, undefined being None
AssigneeId(issue) == IF IsSome(issue.assignee) THEN Some(Get(issue.assignee).id) ELSE None
TeamId(issue) == issue.team

\* (completed - created) / (1000 * 60 * 60 * 24)
CompletionDays(issue) == Sub(DateValue(issue.completedAt), DateValue(issue.createdAt))

\* seq.map(f) for a sequence of issues
MapSeq(seq, F(_)) == [i \in 1..Len(seq) |-> F(seq[i])]

EstimateOf(issue) == Fin(issue.estimate)

---------------------------------------------------------------------------
(* The inputs the model draws from.                                        *)

Alice == [id |-> "u1", name |-> "alice", displayName |-> "Alice", email |-> Some("alice@dev.io")]
Bob == [id |-> "u2", name |-> "bob", displayName |-> "Bob", email |-> None]

Issue(id, title, description, labels, priority, team, state, assignee, estimate, createdAt, completedAt) ==
  [id |-> id, identifier |-> id, title |-> title, description |-> description,
   labels |-> labels, priority |-> priority, team |-> team, state |-> state,
   assignee |-> assignee, estimate |-> estimate,
   createdAt |-> createdAt, completedAt |-> completedAt]

\* Issues of the tracker's history
H1 == Issue("DEV-1", "Refactor billing database", None, None, 2, Some("eng"),
            "completed", Some(Alice), 13, Some(1), Some(10))
H2 == Issue("DEV-2", "Database migration for invoices", None, None, 3, Some("eng"),
            "completed", Some(Alice), 8, Some(1), Some(12))
H3 == Issue("DEV-3", "Fix login button", None, Some(<<"bug">>), 3, Some("eng"),
            "completed", Some(Bob), 3, Some(2), Some(4))
H4 == Issue("DEV-4", "Update copy", None, None, 4, None,
            "completed", Some(Alice), 2, Some(5), Some(5))
H5 == Issue("DEV-5", "Design search workflow", None, None, 1, Some("ops"),
            "completed", Some(Alice), 21, Some(3), None)
H6 == Issue("DEV-6", "Build export system", None, None, 2, Some("ops"),
            "started", Some(Alice), 5, Some(6), None)
H7 == Issue("DEV-7", "Remove typo", None, None, 0, None,
            "completed", None, 1, Some(7), Some(8))
H8 == Issue("DEV-8", "Deploy api gateway", None, None, 2, Some("ops"),
            "completed", Some(Alice), 5, Some(9), Some(0))

HistoryPool == {H1, H2, H3, H4, H5, H6, H7, H8}

\* More completed issues of the team "eng", for histories with many candidates
H9 == Issue("DEV-9", "Archive old reports", None, None, 3, Some("eng"),
            "completed", Some(Bob), 5, Some(3), Some(6))
H10 == Issue("DEV-10", "Rotate signing keys", None, None, 2, Some("eng"),
             "completed", Some(Alice), 2, Some(4), Some(5))
H11 == Issue("DEV-16", "Index customer table", None, None, 4, Some("eng"),
             "completed", None, 8, Some(5), Some(9))


\* Issues to estimate
I1 == Issue("DEV-11", "Refactor database migration for performance", None, None, 2, Some("eng"),
            "unstarted", Some(Alice), 0, Some(20), None)
I2 == Issue("DEV-12", "Fix button color", Some("Update copy text"), Some(<<"Bug", "UI">>), 3, None,
            "unstarted", Some(Bob), 0, Some(20), None)
I3 == Issue("DEV-13", "Fix typo in signup form", Some("Update button text"),
            Some(<<"feature", "UI">>), 1, Some("web"),
            "unstarted", Some(Alice), 0, Some(21), None)
I4 == Issue("DEV-14", "Rename label", None, Some(<<>>), 0, Some("ops"),
            "unstarted", None, 0, Some(21), None)
I5 == Issue("DEV-15", "Tidy imports", None, None, 3, Some("web"),
            "started", Some(Bob), 0, Some(22), None)
I6 == Issue("DEV-3", "Fix login button", None, Some(<<"bug">>), 2, Some("web"),
            "unstarted", Some(Bob), 0, Some(2), None)

IssuePool == {I1, I2, I3, I4, I5, I6}

\* DEV-11 once it is completed, with the estimate it was given
H12 == [I1 EXCEPT !.state = "completed", !.estimate = 8, !.completedAt = Some(25)]

\* The tracker's issues in the order the tracker returns them
LongHistory == <<H1, H4, H2, H6, H9, H3, H7, H10, H12, H11, H8>>

---------------------------------------------------------------------------
(* StoryPointEstimator                                                     *)

FIBONACCI_SEQUENCE == <<1, 2, 3, 5, 8, 13, 21, 34>>

determineComplexityPreference(completed) ==
  LET avgPoints == Div(SumSeq(MapSeq(completed, EstimateOf)), Fin(Len(completed)))
  IN  IF Le(avgPoints, Fin(3)) THEN "simple"
      ELSE IF Le(avgPoints, Fin(8)) THEN "medium"
      ELSE "complex"

calculateEstimateAccuracy(completed) ==
  LET completionTimes == MapSeq(completed, CompletionDays)
      n == Fin(Len(completionTimes))
      avgTime == Div(SumSeq(completionTimes), n)
      SquaredDiff(time) == Mul(Sub(time, avgTime), Sub(time, avgTime))
      variance == Div(SumSeq(MapSeq(completionTimes, SquaredDiff)), n)
      standardDeviation == MathSqrt(variance)
  IN  MathMax(Rat(1, 10), Sub(Fin(1), Div(standardDeviation, avgTime)))

\* The issues of the history that count for the user's velocity
\* A filter that keeps the completed, estimated issues of every assignee
CompletedEstimatedIssue(issue) ==
  /\ issue.state = "completed"
  /\ issue.estimate > 0

QualifyingIssue(issue) ==
  /\ issue.state = "completed"
  /\ AssigneeId(issue) = userPerformance.userId
  /\ issue.estimate > 0

DefaultVelocity ==
  [avgPointsPerDay |-> Fin(2), avgTimePerPoint |-> Fin(1),
   complexity |-> "medium", accuracy |-> Rat(1, 2)]

\* calculatePersonalVelocity over the issues of a history
PersonalVelocityOf(history) ==
  LET completedIssues == SelectSeq(history, QualifyingIssue)
      n == Fin(Len(completedIssues))
      totalPoints == SumSeq(MapSeq(completedIssues, EstimateOf))
      avgCompletionTime == Div(SumSeq(MapSeq(completedIssues, CompletionDays)), n)
  IN  IF Len(completedIssues) = 0 THEN DefaultVelocity
      ELSE [avgPointsPerDay |-> OrElse(Div(totalPoints, Mul(avgCompletionTime, n)), Fin(2)),
            avgTimePerPoint |-> OrElse(Div(avgCompletionTime, Div(totalPoints, n)), Fin(1)),
            complexity |-> determineComplexityPreference(completedIssues),
            accuracy |-> calculateEstimateAccuracy(completedIssues)]

calculatePersonalVelocity == PersonalVelocityOf(linearData)

technicalKeywords ==
  <<"refactor", "architecture", "database", "migration", "integration",
    "api", "security", "performance", "optimization", "algorithm",
    "deploy", "infrastructure", "testing", "automation">>

simpleKeywords ==
  <<"fix", "update", "change", "add", "remove", "typo", "text",
    "button", "color", "style", "copy", "documentation">>

complexKeywords ==
  <<"implement", "build", "create", "design", "develop",
    "complex", "multiple", "system", "workflow", "process">>

\* keywords.forEach(keyword => { if (text.includes(keyword)) score += delta })
RECURSIVE ScoreKeywords(_, _, _, _)
ScoreKeywords(text, keywords, score, delta) ==
  IF keywords = <<>> THEN score
  ELSE ScoreKeywords(text, Tail(keywords),
                     IF includes(text, Head(keywords)) THEN Add(score, delta) ELSE score,
                     delta)

\* The score of the text before it is clamped
TextScore(title, description) ==
  LET combinedText == toLowerCase(title \o " " \o (IF IsSome(description) THEN Get(description) ELSE ""))
      s1 == ScoreKeywords(combinedText, technicalKeywords, Fin(1), Rat(1, 2))
      s2 == ScoreKeywords(combinedText, simpleKeywords, s1, Rat(-1, 5))
      s3 == ScoreKeywords(combinedText, complexKeywords, s2, Rat(3, 10))
      wordCount == Len(split(combinedText))
      s4 == IF wordCount > 50 THEN Add(s3, Rat(1, 2)) ELSE s3
      s5 == IF wordCount > 100 THEN Add(s4, Rat(1, 2)) ELSE s4
  IN  s5

\* A text complexity that is the score as it stands
textScoreUnclamped(title, description) == TextScore(title, description)

\* Math.max(0.5, Math.min(3, score))
analyzeTextComplexity(title, description) ==
  MathMax(Rat(1, 2), MathMin(Fin(3), TextScore(title, description)))

complexLabels == <<"epic", "feature", "architecture", "breaking-change", "research">>
simpleLabels == <<"bug", "hotfix", "documentation", "ui", "copy">>

IncludesAny(label, words) == \E i \in 1..Len(words) : includes(label, words[i])

RECURSIVE ScoreLabels(_, _)
ScoreLabels(labelNames, score) ==
  IF labelNames = <<>> THEN score
  ELSE LET label == Head(labelNames)
           a == IF IncludesAny(label, complexLabels) THEN Add(score, Rat(1, 2)) ELSE score
           b == IF IncludesAny(label, simpleLabels) THEN Add(a, Rat(-1, 5)) ELSE a
       IN  ScoreLabels(Tail(labelNames), b)

analyzeLabelComplexity(labels) ==
  IF ~IsSome(labels) THEN Fin(1)
  ELSE LET labelNames == MapSeq(Get(labels), toLowerCase)
       IN  MathMax(Rat(1, 2), MathMin(Fin(2), ScoreLabels(labelNames, Fin(1))))

analyzePriority(priority) ==
  CASE priority = 1 -> Rat(3, 2)
    [] priority = 2 -> Rat(6, 5)
    [] priority = 3 -> Fin(1)
    [] priority = 4 -> Rat(4, 5)
    [] OTHER -> Fin(1)

analyzeTeamContext == Fin(1)

calculateTextSimilarity(text1, text2) ==
  LET words1 == split(toLowerCase(text1))
      words2 == split(toLowerCase(text2))
      InWords2(word) == Contains(words2, word)
      commonWords == SelectSeq(words1, InWords2)
      longest == IF Len(words1) > Len(words2) THEN Len(words1) ELSE Len(words2)
  IN  Div(Fin(Len(commonWords)), Fin(longest))

\* this.calculateTextSimilarity(a, b) for the titles of the model's issues: a
\* function of the two titles alone, computed once
Titles == {i.title : i \in IssuePool \cup HistoryPool \cup {H9, H10, H11}}
TextSimilarityOf == [a \in Titles |-> [b \in Titles |-> calculateTextSimilarity(a, b)]]

\* A search that returns every similar issue
findEverySimilarIssue(issue) ==
  LET Candidate(i) == i.state = "completed" /\ i.estimate > 0 /\ i.id # issue.id
      Similar(completedIssue) ==
        \/ Gt(TextSimilarityOf[issue.title][completedIssue.title], Rat(3, 10))
        \/ TeamId(issue) = TeamId(completedIssue)
  IN  SelectSeq(SelectSeq(linearData, Candidate), Similar)

findSimilarIssues(issue) ==
  LET Candidate(i) == i.state = "completed" /\ i.estimate > 0 /\ i.id # issue.id
      completedIssues == SelectSeq(linearData, Candidate)
      Similar(completedIssue) ==
        LET titleSimilarity == TextSimilarityOf[issue.title][completedIssue.title]
            teamMatch == TeamId(issue) = TeamId(completedIssue)
        IN  Gt(titleSimilarity, Rat(3, 10)) \/ teamMatch
  IN  Slice(SelectSeq(completedIssues, Similar), 5)

\* The texts of the issue fixtures, and their complexities computed once
Texts == {<<i.title, i.description>> : i \in IssuePool \cup HistoryPool}

TextComplexityOf == [t \in Texts |-> analyzeTextComplexity(t[1], t[2])]

\* The analysis of an issue, given the complexity of its text
AnalysisOf(issue, textComplexity) ==
  [textComplexity |-> textComplexity,
   labelComplexity |-> analyzeLabelComplexity(issue.labels),
   priorityWeight |-> analyzePriority(issue.priority),
   teamComplexity |-> analyzeTeamContext,
   similarIssues |-> findSimilarIssues(issue)]

\* analyzeIssueComplexity(issue) for an issue of the fixtures
analyzeIssueComplexity(issue) ==
  AnalysisOf(issue, TextComplexityOf[<<issue.title, issue.description>>])

AvgSimilarPoints(analysis) ==
  Div(SumSeq(MapSeq(analysis.similarIssues, EstimateOf)), Fin(Len(analysis.similarIssues)))

calculateBaseEstimate(analysis) ==
  LET s0 == Mul(Mul(Mul(Fin(2), analysis.textComplexity), analysis.labelComplexity),
                analysis.priorityWeight)
      baseScore == IF Len(analysis.similarIssues) > 0
                   THEN Div(Add(s0, AvgSimilarPoints(analysis)), Fin(2))
                   ELSE s0
  IN  MathMax(Fin(1), baseScore)

\* An adjustment by the preference alone, whatever the size of the estimate
adjustByPreference(baseEstimate) ==
  LET a1 == IF personalVelocity.complexity = "simple"
            THEN Mul(baseEstimate, Rat(6, 5))
            ELSE IF personalVelocity.complexity = "complex"
                 THEN Mul(baseEstimate, Rat(4, 5))
                 ELSE baseEstimate
  IN  IF Lt(personalVelocity.accuracy, Rat(1, 2)) THEN Mul(a1, Rat(11, 10)) ELSE a1

adjustForPersonalVelocity(baseEstimate) ==
  LET a1 == IF personalVelocity.complexity = "simple" /\ Gt(baseEstimate, Fin(5))
            THEN Mul(baseEstimate, Rat(6, 5))
            ELSE IF personalVelocity.complexity = "complex" /\ Lt(baseEstimate, Fin(3))
                 THEN Mul(baseEstimate, Rat(4, 5))
                 ELSE baseEstimate
  IN  IF Lt(personalVelocity.accuracy, Rat(1, 2)) THEN Mul(a1, Rat(11, 10)) ELSE a1

\* A scan that moves on to the next value when it is as close as the last
RECURSIVE ClosestOrEqualFrom(_, _, _)
ClosestOrEqualFrom(estimate, prev, rest) ==
  IF rest = <<>> THEN prev
  ELSE LET curr == Head(rest)
       IN  ClosestOrEqualFrom(estimate,
                              IF Le(MathAbs(Sub(Fin(curr), estimate)), MathAbs(Sub(Fin(prev), estimate)))
                              THEN curr ELSE prev,
                              Tail(rest))

\* A rounding to the nearest whole number of points
roundToWhole(estimate) == Floor(Add(estimate, Rat(1, 2)))

\* FIBONACCI_SEQUENCE.reduce((prev, curr) => |curr - e| < |prev - e| ? curr : prev)
RECURSIVE ClosestFrom(_, _, _)
ClosestFrom(estimate, prev, rest) ==
  IF rest = <<>> THEN prev
  ELSE LET curr == Head(rest)
       IN  ClosestFrom(estimate,
                       IF Lt(MathAbs(Sub(Fin(curr), estimate)), MathAbs(Sub(Fin(prev), estimate)))
                       THEN curr ELSE prev,
                       Tail(rest))

roundToFibonacci(estimate) ==
  ClosestFrom(estimate, Head(FIBONACCI_SEQUENCE), Tail(FIBONACCI_SEQUENCE))

calculateConfidence(analysis) ==
  LET c0 == Rat(1, 2)
      c1 == IF Len(analysis.similarIssues) > 2 THEN Add(c0, Rat(1, 5)) ELSE c0
      c2 == Add(c1, Mul(personalVelocity.accuracy, Rat(3, 10)))
      c3 == IF Gt(analysis.textComplexity, Rat(4, 5)) /\ Lt(analysis.textComplexity, Fin(2))
            THEN Add(c2, Rat(1, 10)) ELSE c2
  IN  MathMin(Rat(19, 20), MathMax(Rat(1, 10), c3))

generateReasoning(analysis) ==
  (IF Gt(analysis.textComplexity, Rat(3, 2))
   THEN <<"High technical complexity detected in description">>
   ELSE IF Lt(analysis.textComplexity, Rat(4, 5))
        THEN <<"Simple task based on description">>
        ELSE <<>>)
  \o (IF Len(analysis.similarIssues) > 0
      THEN <<"Similar issues averaged " \o toFixed1(AvgSimilarPoints(analysis)) \o " points">>
      ELSE <<>>)
  \o (IF Gt(analysis.priorityWeight, Rat(11, 10))
      THEN <<"High priority may require extra care and testing">>
      ELSE <<>>)
  \o (IF personalVelocity.complexity # "medium"
      THEN <<"Adjusted for your " \o personalVelocity.complexity \o " task preference">>
      ELSE <<>>)

\* The value above the estimate alone
alternativeAbove(mainEstimate) ==
  LET index == indexOf(FIBONACCI_SEQUENCE, mainEstimate)
  IN  IF index < Len(FIBONACCI_SEQUENCE) - 1
      THEN <<[points |-> FIBONACCI_SEQUENCE[index + 2], reason |-> "If additional complexity emerges"]>>
      ELSE <<>>

generateAlternatives(mainEstimate) ==
  LET index == indexOf(FIBONACCI_SEQUENCE, mainEstimate)
  IN  (IF index > 0
       THEN <<[points |-> FIBONACCI_SEQUENCE[index], reason |-> "If scope is smaller than expected"]>>
       ELSE <<>>)
      \o (IF index < Len(FIBONACCI_SEQUENCE) - 1
          THEN <<[points |-> FIBONACCI_SEQUENCE[index + 2], reason |-> "If additional complexity emerges"]>>
          ELSE <<>>)

\* Math.round(x * 10) / 10
Round1(x) == Div(MathRound(Mul(x, Fin(10))), Fin(10))

estimateTimeRequired(points) ==
  LET daysEstimate == Mul(Fin(points), personalVelocity.avgTimePerPoint)
      hours == Mul(daysEstimate, Fin(8))
  IN  [days |-> Round1(daysEstimate),
       hours |-> Round1(hours),
       range |-> [min |-> Round1(Mul(hours, Rat(7, 10))),
                  max |-> Round1(Mul(hours, Rat(13, 10)))]]

estimateStoryPoints(issue) ==
  LET analysis == analyzeIssueComplexity(issue)
      baseEstimate == calculateBaseEstimate(analysis)
      adjustedEstimate == adjustForPersonalVelocity(baseEstimate)
      fibonacciEstimate == roundToFibonacci(adjustedEstimate)
  IN  [suggestedPoints |-> fibonacciEstimate,
       confidence |-> calculateConfidence(analysis),
       reasoning |-> generateReasoning(analysis),
       alternatives |-> generateAlternatives(fibonacciEstimate),
       timeEstimate |-> estimateTimeRequired(fibonacciEstimate)]

EstimateItem(issue) == [issue |-> issue, estimate |-> estimateStoryPoints(issue)]

estimateMultipleIssues(batch) == MapSeq(batch, EstimateItem)

\* An insertion that also moves x ahead of the elements whose key equals its own
RECURSIVE InsertAheadOfEqual(_, _, _)
InsertAheadOfEqual(sorted, x, keys) ==
  IF sorted = <<>> THEN <<x>>
  ELSE LET last == sorted[Len(sorted)]
       IN  IF Ge(Sub(keys[x], keys[last]), Fin(0))
           THEN InsertAheadOfEqual(SubSeq(sorted, 1, Len(sorted) - 1), x, keys) \o <<last>>
           ELSE sorted \o <<x>>

\* array.sort((a, b) => key(b) - key(a)), as positions of the array: the sort is
\* stable, an element moves in front of an earlier one only when the comparator
\* is positive for them.  keys[i] is the key of the array's i-th element.
RECURSIVE InsertSorted(_, _, _)
InsertSorted(sorted, x, keys) ==
  IF sorted = <<>> THEN <<x>>
  ELSE LET last == sorted[Len(sorted)]
       IN  IF Gt(Sub(keys[x], keys[last]), Fin(0))
           THEN InsertSorted(SubSeq(sorted, 1, Len(sorted) - 1), x, keys) \o <<last>>
           ELSE sorted \o <<x>>

RECURSIVE SortedPositions(_, _)
SortedPositions(keys, n) ==
  IF n = 0 THEN <<>>
  ELSE InsertSorted(SortedPositions(keys, n - 1), n, keys)

sortDescending(seq, keys) ==
  LET order == SortedPositions(keys, Len(seq))
  IN  [i \in 1..Len(seq) |-> seq[order[i]]]

\* item.issue.priority || 3
PriorityOrDefault(issue) == IF issue.priority = 0 THEN 3 ELSE issue.priority

Prioritize(item) ==
  [issue |-> item.issue,
   estimate |-> item.estimate,
   valueEffortRatio |-> Rat(PriorityOrDefault(item.issue), item.estimate.suggestedPoints),
   quickWin |-> item.estimate.suggestedPoints <= 3 /\ PriorityOrDefault(item.issue) >= 2]

ValueEffortRatio(item) == item.valueEffortRatio

\* A quick win by its points alone
IsSmallItem(item) == item.estimate.suggestedPoints <= 3

IsQuickWin(item) == item.quickWin

\* The sum of the suggested points of the first five estimates only
RECURSIVE SumFirstFive(_)
SumFirstFive(estimates) ==
  IF estimates = <<>> THEN 0
  ELSE IF Len(estimates) > 5 THEN SumFirstFive(SubSeq(estimates, 1, 5))
  ELSE SumFirstFive(SubSeq(estimates, 1, Len(estimates) - 1))
       + estimates[Len(estimates)].estimate.suggestedPoints

RECURSIVE SumPoints(_)
SumPoints(estimates) ==
  IF estimates = <<>> THEN 0
  ELSE SumPoints(SubSeq(estimates, 1, Len(estimates) - 1))
       + estimates[Len(estimates)].estimate.suggestedPoints

getPrioritizationRecommendations(batch) ==
  LET estimates == estimateMultipleIssues(batch)
      items == MapSeq(estimates, Prioritize)
      prioritized == sortDescending(items, MapSeq(items, ValueEffortRatio))
  IN  [recommended |-> Slice(prioritized, 5),
       quickWins |-> Slice(SelectSeq(prioritized, IsQuickWin), 3),
       totalEffort |-> SumPoints(estimates)]

\* The sequences over pool of length at most n whose elements are pairwise distinct
RECURSIVE DistinctSeqs(_, _)
DistinctSeqs(pool, n) ==
  IF n = 0 THEN {<<>>}
  ELSE LET shorter == DistinctSeqs(pool, n - 1)
           longer == {Append(s, e) : s \in shorter, e \in pool}
       IN  shorter \cup {s \in longer : \A i, j \in 1..Len(s) : i # j => s[i] # s[j]}

MaxHistory == 3
MaxBatch == 6
MaxCalls == 2

\* The history of the end-to-end example: three completed issues of the team
ReferenceHistory == <<H1, H2, H3>>

---------------------------------------------------------------------------
(* The estimator.  It is constructed over a history and then called; a     *)
(* caller calls it on a new input or repeats its last call.                *)

Unused == <<>>

InitEstimator(histories) ==
  /\ linearData \in histories
  /\ userPerformance = [userId |-> Some(Alice.id)]
  /\ personalVelocity = Unused
  /\ issues = <<>>
  /\ op = "new"
  /\ calls = 0
  /\ result = Unused
  /\ commits = Unused
  /\ pullRequests = Unused
  /\ teamPerformance = Unused
  /\ dataCorrelations = <<>>
  /\ adjustedScore = Unused
  /\ SignedOut

\* The operation called is a first call, or the last call once more
MayCall(name) == op = "ready" \/ (op = name /\ calls < MaxCalls)
CallsAfter(name) == IF op = name THEN calls + 1 ELSE 1

\* new StoryPointEstimator(linearData, gitData, userPerformance)
Construct ==
  /\ op = "new"
  /\ personalVelocity' = calculatePersonalVelocity
  /\ op' = "ready"
  /\ UNCHANGED <<linearData, userPerformance, issues, calls, result,
                 commits, pullRequests, teamPerformance, dataCorrelations,
                 adjustedScore, session>>

\* estimator.estimateStoryPoints(issue)
EstimateStoryPoints ==
  \E issue \in IssuePool :
    /\ MayCall("estimateStoryPoints")
    /\ op = "estimateStoryPoints" => issues = <<issue>>
    /\ issues' = <<issue>>
    /\ op' = "estimateStoryPoints"
    /\ calls' = CallsAfter("estimateStoryPoints")
    /\ result' = estimateStoryPoints(issue)
    /\ UNCHANGED <<linearData, userPerformance, personalVelocity,
                   commits, pullRequests, teamPerformance, dataCorrelations,
                 adjustedScore, session>>

\* The caller puts one more issue on the list it is about to hand over
AddIssue ==
  \E issue \in IssuePool :
    /\ op # "new"
    /\ Len(issues) < MaxBatch
    /\ ~Contains(issues, issue)
    /\ issues' = Append(issues, issue)
    /\ op' = "ready"
    /\ calls' = 0
    /\ result' = Unused
    /\ UNCHANGED <<linearData, userPerformance, personalVelocity,
                   commits, pullRequests, teamPerformance, dataCorrelations,
                 adjustedScore, session>>

\* A batch estimate that writes each suggestion into its issue's estimate
EstimateAndRecordPoints ==
  /\ MayCall("estimateMultipleIssues")
  /\ op' = "estimateMultipleIssues"
  /\ calls' = CallsAfter("estimateMultipleIssues")
  /\ result' = estimateMultipleIssues(issues)
  /\ issues' = [i \in 1..Len(issues) |->
                  [issues[i] EXCEPT !.estimate = result'[i].estimate.suggestedPoints]]
  /\ UNCHANGED <<linearData, userPerformance, personalVelocity,
                 commits, pullRequests, teamPerformance, dataCorrelations,
                 adjustedScore, session>>

\* estimator.estimateMultipleIssues(issues)
EstimateMultipleIssues ==
  /\ MayCall("estimateMultipleIssues")
  /\ op' = "estimateMultipleIssues"
  /\ calls' = CallsAfter("estimateMultipleIssues")
  /\ result' = estimateMultipleIssues(issues)
  /\ UNCHANGED <<linearData, userPerformance, personalVelocity, issues,
                 commits, pullRequests, teamPerformance, dataCorrelations,
                 adjustedScore, session>>

\* A prioritization that leaves the estimator less sure of itself on every call
PrioritizeAndRecalibrate ==
  /\ MayCall("getPrioritizationRecommendations")
  /\ op' = "getPrioritizationRecommendations"
  /\ calls' = CallsAfter("getPrioritizationRecommendations")
  /\ result' = getPrioritizationRecommendations(issues)
  /\ personalVelocity' = [personalVelocity EXCEPT !.accuracy = Rat(1, 10)]
  /\ UNCHANGED <<linearData, userPerformance, issues,
                 commits, pullRequests, teamPerformance, dataCorrelations,
                 adjustedScore, session>>

\* estimator.getPrioritizationRecommendations(issues)
GetPrioritizationRecommendations ==
  /\ MayCall("getPrioritizationRecommendations")
  /\ op' = "getPrioritizationRecommendations"
  /\ calls' = CallsAfter("getPrioritizationRecommendations")
  /\ result' = getPrioritizationRecommendations(issues)
  /\ UNCHANGED <<linearData, userPerformance, personalVelocity, issues,
                 commits, pullRequests, teamPerformance, dataCorrelations,
                 adjustedScore, session>>

\* One issue at a time, over every short history
InitEst == InitEstimator(DistinctSeqs(HistoryPool, MaxHistory))
NextEst == Construct \/ EstimateStoryPoints
SpecEst == InitEst /\ [][NextEst]_vars

\* Batches of issues, over the reference history
InitPrio == InitEstimator({ReferenceHistory})
NextPrio == Construct \/ AddIssue \/ EstimateMultipleIssues \/ GetPrioritizationRecommendations
SpecPrio == InitPrio /\ [][NextPrio]_vars

---------------------------------------------------------------------------
(* Claims about the estimate of one issue (SpecEst).                       *)

Estimated == op = "estimateStoryPoints"

\* C1: estimateStoryPoints(issue).suggestedPoints is one of 1, 2, 3, 5, 8, 13, 21,
\* 34, for every issue and every history the estimator was constructed over.
C1_SuggestedPointsFibonacci ==
  Estimated => result.suggestedPoints \in {1, 2, 3, 5, 8, 13, 21, 34}

\* An estimate above 3 points under a velocity profile derived from a history
C1_Witness ==
  /\ Estimated
  /\ result.suggestedPoints > 3
  /\ personalVelocity.complexity # "medium"

\* C2: estimateStoryPoints(issue).confidence c satisfies 0.1 <= c <= 0.95, for
\* every issue and every history (any estimates, any createdAt / completedAt).
C2_ConfidenceInRange ==
  Estimated => Ge(result.confidence, Rat(1, 10)) /\ Le(result.confidence, Rat(19, 20))

\* No issue of the history is completed, assigned to the user and estimated
NoQualifyingHistory ==
  \A i \in 1..Len(linearData) :
    ~(/\ linearData[i].state = "completed"
      /\ linearData[i].estimate > 0
      /\ IsSome(linearData[i].assignee)
      /\ Some(Get(linearData[i].assignee).id) = userPerformance.userId)

\* C3: with no qualifying history the velocity profile is exactly
\* {avgPointsPerDay: 2, avgTimePerPoint: 1, complexity: "medium", accuracy: 0.5}.
C3_DefaultVelocity ==
  (op # "new" /\ NoQualifyingHistory) =>
    personalVelocity = [avgPointsPerDay |-> Fin(2), avgTimePerPoint |-> Fin(1),
                        complexity |-> "medium", accuracy |-> Rat(1, 2)]

\* A history that is not empty and holds nothing that qualifies
C3_Witness ==
  /\ op # "new"
  /\ Len(linearData) > 1
  /\ NoQualifyingHistory
  /\ personalVelocity.accuracy = Rat(1, 2)

\* The end-to-end example: the issue, three similar completed issues that average
\* 8 points, and a profile with preference "complex" and accuracy 0.9
C10_Example ==
  /\ Estimated
  /\ issues[1].title = "Refactor database migration for performance"
  /\ issues[1].description = None
  /\ issues[1].labels = None
  /\ issues[1].priority = 2
  /\ Len(findSimilarIssues(issues[1])) = 3
  /\ AvgSimilarPoints(analyzeIssueComplexity(issues[1])) = Fin(8)
  /\ personalVelocity.complexity = "complex"
  /\ personalVelocity.accuracy = Rat(9, 10)

\* C10: in the end-to-end example textComplexity is 3, the base score is 7.6, the
\* personal adjustment leaves it unchanged, suggestedPoints is 8 and confidence 0.95.
C10_EndToEnd ==
  C10_Example =>
    LET analysis == analyzeIssueComplexity(issues[1])
        baseEstimate == calculateBaseEstimate(analysis)
    IN  /\ analysis.textComplexity = Fin(3)
        /\ baseEstimate = Rat(38, 5)
        /\ adjustForPersonalVelocity(baseEstimate) = baseEstimate
        /\ result.suggestedPoints = 8
        /\ result.confidence = Rat(19, 20)

C10_Witness == C10_Example /\ calls = 1

\* The issues of the history that the velocity profile is computed from
QualifyingHistory == SelectSeq(linearData, QualifyingIssue)

Profiled == op # "new" /\ Len(QualifyingHistory) > 0

\* C15: every velocity profile computed from a non-empty qualifying history, with
\* any createdAt / completedAt, has avgPointsPerDay > 0, avgTimePerPoint > 0 and
\* an accuracy within [0, 1].
C15_ProfileRanges ==
  Profiled =>
    /\ Gt(personalVelocity.avgPointsPerDay, Fin(0))
    /\ Gt(personalVelocity.avgTimePerPoint, Fin(0))
    /\ Ge(personalVelocity.accuracy, Fin(0))
    /\ Le(personalVelocity.accuracy, Fin(1))

\* The mean completion time of the qualifying issues, in days
MeanCompletionDays ==
  Div(SumSeq(MapSeq(QualifyingHistory, CompletionDays)), Fin(Len(QualifyingHistory)))

\* C16: when the mean completion time of the qualifying issues is 0 days, the
\* profile has avgPointsPerDay = 2.
C16_ZeroMeanGivesDefaultRate ==
  (Profiled /\ MeanCompletionDays = Fin(0)) => personalVelocity.avgPointsPerDay = Fin(2)

\* The history without the issues that have no completedAt
HasCompletedAt(issue) == IsSome(issue.completedAt)
DatedHistory == SelectSeq(linearData, HasCompletedAt)

\* C17: the profile is computed only from issues that are completed, have a
\* completedAt and an estimate > 0: a completed, estimated issue without
\* completedAt influences no field of the profile.
C17_UndatedIssuesIgnored ==
  op # "new" => personalVelocity = PersonalVelocityOf(DatedHistory)

---------------------------------------------------------------------------
(* Claims about batches of issues (SpecPrio).                              *)

Prioritized == op = "getPrioritizationRecommendations"

\* The suggested points of each issue of the batch, each estimated on its own
BatchPoints ==
  LET n == Len(issues)
  IN  SubSeq([i \in 1..n |-> estimateStoryPoints(issues[i]).suggestedPoints] \o <<>>, 1, n)

\* (priority || 3) / points
RatioOf(issue, points) == Rat(IF issue.priority = 0 THEN 3 ELSE issue.priority, points)

\* The place of issue i in the descending, stable order of the ratios
RankIn(ratios, i) ==
  1 + Cardinality({j \in 1..Len(ratios) :
                     Gt(ratios[j], ratios[i]) \/ (ratios[j] = ratios[i] /\ j < i)})

\* C6: recommended holds the first min(5, n) items of the batch in descending
\* order of valueEffortRatio = (priority || 3) / suggestedPoints, and items of
\* equal ratio keep the order they had in the input.
C6_RecommendedTopFive ==
  Prioritized =>
    LET n == Len(issues)
        points == BatchPoints
        ratios == [i \in 1..n |-> RatioOf(issues[i], points[i])]
    IN  /\ Len(result.recommended) = (IF n < 5 THEN n ELSE 5)
        /\ \A i \in 1..n :
             LET rank == RankIn(ratios, i)
             IN  rank <= 5 =>
                   /\ result.recommended[rank].issue = issues[i]
                   /\ result.recommended[rank].valueEffortRatio = ratios[i]
                   /\ result.recommended[rank].estimate.suggestedPoints = points[i]

\* Six issues: one is left out, two recommended neighbours have equal ratios
\* and two have different ones
C6_Witness ==
  /\ Prioritized
  /\ Len(issues) = 6
  /\ Len(result.recommended) = 5
  /\ \E k \in 1..4 :
       result.recommended[k].valueEffortRatio = result.recommended[k + 1].valueEffortRatio
  /\ \E k \in 1..4 :
       Gt(result.recommended[k].valueEffortRatio, result.recommended[k + 1].valueEffortRatio)

RECURSIVE SumInts(_)
SumInts(s) == IF s = <<>> THEN 0 ELSE Head(s) + SumInts(Tail(s))

\* C7: totalEffort is the sum of suggestedPoints over every issue of the batch,
\* recommended or not, and 0 for the empty batch.
C7_TotalEffortWholeBatch ==
  Prioritized =>
    /\ result.totalEffort = SumInts(BatchPoints)
    /\ issues = <<>> => result.totalEffort = 0

\* A batch larger than the recommended list, whose total exceeds the list's
C7_Witness ==
  /\ Prioritized
  /\ Len(issues) = 6
  /\ result.totalEffort > SumInts([k \in 1..5 |-> result.recommended[k].estimate.suggestedPoints])

\* C8: a second call of estimateMultipleIssues or getPrioritizationRecommendations
\* on the same input, on the same estimator, returns what the first call returned.
C8_RepeatedCallSameResult ==
  [][(/\ op \in {"estimateMultipleIssues", "getPrioritizationRecommendations"}
      /\ op' = op
      /\ issues' = issues) => result' = result]_vars

\* A batch call made twice on several issues
C8_Witness ==
  /\ op \in {"estimateMultipleIssues", "getPrioritizationRecommendations"}
  /\ calls = 2
  /\ Len(issues) > 2
  /\ linearData # <<>>

\* Issue i of the batch has at most 3 points and a priority, 3 when it has none,
\* of at least 2
Qualifies(i, points) ==
  points[i] <= 3 /\ (IF issues[i].priority = 0 THEN 3 ELSE issues[i].priority) >= 2

\* The place of issue i among the qualifying issues, in the order of the ratios
QuickWinRank(i, points, ratios) ==
  1 + Cardinality({j \in 1..Len(issues) :
                     Qualifies(j, points) /\ RankIn(ratios, j) < RankIn(ratios, i)})

\* C19: quickWins holds at most 3 items, in valueEffortRatio order, each with
\* suggestedPoints <= 3 and a priority (3 when absent) >= 2; an issue of priority
\* 1 is never a quick win, and the first three qualifying items of the sorted
\* order are all in it.
C19_QuickWins ==
  Prioritized =>
    LET n == Len(issues)
        points == BatchPoints
        ratios == [i \in 1..n |-> RatioOf(issues[i], points[i])]
        qualifying == {i \in 1..n : Qualifies(i, points)}
        wins == result.quickWins
    IN  /\ Len(wins) = (IF Cardinality(qualifying) < 3 THEN Cardinality(qualifying) ELSE 3)
        /\ \A k \in 1..Len(wins) :
             /\ wins[k].estimate.suggestedPoints <= 3
             /\ wins[k].issue.priority # 1
             /\ wins[k].issue.priority = 0 \/ wins[k].issue.priority >= 2
        /\ \A k \in 1..(Len(wins) - 1) :
             Ge(wins[k].valueEffortRatio, wins[k + 1].valueEffortRatio)
        /\ \A i \in qualifying :
             LET rank == QuickWinRank(i, points, ratios)
             IN  rank <= 3 => wins[rank].issue = issues[i]

\* Four qualifying issues, of which one is left out, and an urgent issue of at
\* most 3 points
C19_Witness ==
  /\ Prioritized
  /\ Len(result.quickWins) = 3
  /\ Cardinality({i \in 1..Len(issues) : Qualifies(i, BatchPoints)}) = 4
  /\ \E i \in 1..Len(issues) : issues[i].priority = 1 /\ BatchPoints[i] <= 3

---------------------------------------------------------------------------
(* The activity correlator (CommentAnalysis).                              *)
(* A commit is a record                                                    *)
(*   login   : optional commit.author.login (commit.author may be null)    *)
(*   email   : optional commit.commit.author.email                         *)
(*   message : commit.commit.message                                       *)
(* and a pull request a record                                             *)
(*   login : optional pr.user.login,  title : string,  body : optional     *)

Commit(login, email, message) == [login |-> login, email |-> email, message |-> message]
PullRequest(login, title, body) == [login |-> login, title |-> title, body |-> body]

K1 == Commit(Some("alice"), Some("alice@dev.io"), "Refactor billing module")
K2 == Commit(None, Some("alice@dev.io"), "wip")
K3 == Commit(Some("carol"), Some("carol@dev.io"), "DEV-7 Remove TYPO in docs")
K4 == Commit(None, None, "misc")
K5 == Commit(None, Some("bob"), "Tweak billing build")
CommitPool == {K1, K2, K3, K4, K5}

P1 == PullRequest(Some("alice"), "Billing cleanup", None)
P2 == PullRequest(Some("carol"), "Cleanup", Some("Closes DEV-3"))
P3 == PullRequest(None, "Remove Typo", Some(""))
PullRequestPool == {P1, P2, P3}

\* Issues of two assignees and an unassigned one, estimated and not
CorrelatedIssuePool == {H1, H3, H7, I2}

\* What a property read of a null or undefined object raises
TypeError == "TypeError"

\* How a call ends: it returns a value or throws an error
Returns(value) == [error |-> None, value |-> value]
Throws(error) == [error |-> Some(error), value |-> <<>>]

\* a || b for optional strings: the empty string is falsy too
OrElseString(a, b) == IF IsSome(a) /\ Get(a) # "" THEN a ELSE b

LongWord(word) == Len(word) > 3

\* [issue.identifier, title.toLowerCase().split(' ').filter(w => w.length > 3)].flat()
issueKeywords(issue) ==
  <<issue.identifier>> \o SelectSeq(split(toLowerCase(issue.title)), LongWord)

\* issueKeywords.some(keyword => text.includes(keyword.toLowerCase()))
SomeKeywordIn(keywords, text) ==
  \E k \in 1..Len(keywords) : includes(text, toLowerCase(keywords[k]))

\* A commit filter that looks at the author alone
RelatedByAuthor(issue, keywords, commit) ==
  \/ OrElseString(commit.login, commit.email) = Get(issue.assignee).email
  \/ commit.login = Some(Get(issue.assignee).name)

\* The predicate of commits.filter, for an issue that has an assignee
RelatedCommit(issue, keywords, commit) ==
  LET message == toLowerCase(commit.message)
      author == OrElseString(commit.login, commit.email)
      assignee == Get(issue.assignee)
  IN  \/ author = assignee.email
      \/ commit.login = Some(assignee.name)
      \/ SomeKeywordIn(keywords, message)

\* The predicate of pullRequests.filter, for an issue that has an assignee
RelatedPR(issue, keywords, pr) ==
  LET title == toLowerCase(pr.title)
      body == toLowerCase(IF IsSome(pr.body) THEN Get(pr.body) ELSE "")
      assignee == Get(issue.assignee)
  IN  \/ pr.login = Some(assignee.name)
      \/ SomeKeywordIn(keywords, title)
      \/ SomeKeywordIn(keywords, body)

\* An issue the forEach leaves at once
SkipsNothing(issue) == FALSE

\* if (!issue.assignee) return
SkipsIssue(issue) == ~IsSome(issue.assignee)

\* A score that counts a pull request like a commit
ActivityScoreUnweighted(relatedCommits, relatedPRs) == Len(relatedCommits) + Len(relatedPRs)

\* correlation.relatedCommits.length + (correlation.relatedPRs.length * 2)
ActivityScore(relatedCommits, relatedPRs) == Len(relatedCommits) + Len(relatedPRs) * 2

\* The correlation object the forEach builds for one issue
Correlate(issue, cs, prs) ==
  LET keywords == issueKeywords(issue)
      relatedCommits == SelectSeq(cs, LAMBDA commit : RelatedCommit(issue, keywords, commit))
      relatedPRs == SelectSeq(prs, LAMBDA pr : RelatedPR(issue, keywords, pr))
      activityScore == ActivityScore(relatedCommits, relatedPRs)
  IN  [issue |-> issue,
       relatedCommits |-> relatedCommits,
       relatedPRs |-> relatedPRs,
       activityScore |-> activityScore,
       velocityRatio |-> IF issue.estimate # 0 /\ activityScore > 0
                         THEN Rat(issue.estimate, activityScore) ELSE Fin(0)]

\* A correlation the forEach pushes everything it builds
PushesAll(correlation) == TRUE

\* if (correlation.activityScore > 0) correlations.push(correlation)
PushesCorrelation(correlation) == correlation.activityScore > 0

\* A sort key that is the same for every correlation
SameKey(correlation) == Fin(0)

ActivityKey(correlation) == Fin(correlation.activityScore)

\* The filters read issue.assignee.email and issue.assignee.name for the first
\* commit or pull request they visit: of a null assignee that throws
correlateLinearWithGitHub(is, cs, prs) ==
  LET visited == SelectSeq(is, LAMBDA issue : ~SkipsIssue(issue))
  IN  IF \E i \in 1..Len(visited) :
           ~IsSome(visited[i].assignee) /\ (cs # <<>> \/ prs # <<>>)
      THEN Throws(TypeError)
      ELSE LET built == [i \in 1..Len(visited) |->
                           IF IsSome(visited[i].assignee)
                           THEN Correlate(visited[i], cs, prs)
                           ELSE [issue |-> visited[i], relatedCommits |-> <<>>,
                                 relatedPRs |-> <<>>, activityScore |-> 0,
                                 velocityRatio |-> Fin(0)]]
               correlations == SelectSeq(built, PushesCorrelation)
           IN  Returns(sortDescending(correlations, MapSeq(correlations, ActivityKey)))

MaxIssues == 2
MaxCommits == 2
MaxPullRequests == 2

\* The lists fetched from the tracker and the repository host
InitCorr ==
  /\ issues \in DistinctSeqs(CorrelatedIssuePool, MaxIssues)
  /\ commits \in DistinctSeqs(CommitPool, MaxCommits)
  /\ pullRequests \in DistinctSeqs(PullRequestPool, MaxPullRequests)
  /\ linearData = Unused
  /\ userPerformance = Unused
  /\ personalVelocity = Unused
  /\ teamPerformance = Unused
  /\ dataCorrelations = <<>>
  /\ adjustedScore = Unused
  /\ SignedOut
  /\ op = "ready"
  /\ calls = 0
  /\ result = Unused

\* fetchCorrelationData: correlateLinearWithGitHub(linearIssues, commits,
\* pullRequests), then setData({ correlations, ... }); an error is caught and
\* leaves data.correlations as it was
CorrelateLinearWithGitHub ==
  /\ op = "ready"
  /\ op' = "correlateLinearWithGitHub"
  /\ calls' = 1
  /\ result' = correlateLinearWithGitHub(issues, commits, pullRequests)
  /\ dataCorrelations' = IF result'.error = None THEN result'.value ELSE dataCorrelations
  /\ UNCHANGED <<linearData, userPerformance, personalVelocity, issues,
                 commits, pullRequests, teamPerformance, adjustedScore, session>>

NextCorr == CorrelateLinearWithGitHub
SpecCorr == InitCorr /\ [][NextCorr]_vars

---------------------------------------------------------------------------
(* Claims about the activity correlator (SpecCorr).                        *)

Correlated == op = "correlateLinearWithGitHub"

\* C4: every element of the list correlateLinearWithGitHub returns has
\* activityScore > 0, for any issues, commits and pull requests.
C4_NoZeroActivity ==
  Correlated => \A i \in 1..Len(result.value) : result.value[i].activityScore > 0

\* An assigned issue without any related activity is left out, another is returned
C4_Witness ==
  /\ Correlated
  /\ Len(result.value) = 1
  /\ \E i \in 1..Len(issues) :
       /\ IsSome(issues[i].assignee)
       /\ issues[i] # result.value[1].issue
  /\ commits # <<>>

\* Some commit or pull request mentions the issue's identifier or a title word
Mentions(issue) ==
  LET words == {"dev-7", "remove", "typo"}
  IN  /\ issue = H7
      /\ \/ \E c \in 1..Len(commits), w \in words : includes(toLowerCase(commits[c].message), w)
         \/ \E p \in 1..Len(pullRequests), w \in words : includes(toLowerCase(pullRequests[p].title), w)

\* C5: no returned correlation refers to an issue without assignee, whatever the
\* commits and pull requests say, and such an issue raises no error.
C5_UnassignedNeverCorrelated ==
  Correlated =>
    /\ result.error = None
    /\ \A i \in 1..Len(result.value) : result.value[i].issue.assignee # None

\* An unassigned issue that commits or pull requests mention, next to an
\* assigned one that is returned
C5_Witness ==
  /\ Correlated
  /\ \E i \in 1..Len(issues) : issues[i].assignee = None /\ Mentions(issues[i])
  /\ result.error = None
  /\ Len(result.value) > 0

\* C12: a returned correlation has velocityRatio = estimate / activityScore when
\* its issue's estimate is > 0, and an absent velocityRatio, not zero, when the
\* issue has no estimate or an estimate of 0.
C12_VelocityRatioAbsentWithoutEstimate ==
  Correlated =>
    \A i \in 1..Len(result.value) :
      LET c == result.value[i]
      IN  /\ c.issue.estimate > 0 =>
               c.velocityRatio = Rat(c.issue.estimate, c.activityScore)
          /\ c.issue.estimate = 0 => c.velocityRatio # Fin(0)

\* C13: a returned correlation has activityScore = (number of relatedCommits)
\* + 2 x (number of relatedPRs).
C13_ActivityScoreFormula ==
  Correlated =>
    \A i \in 1..Len(result.value) :
      result.value[i].activityScore =
        Len(result.value[i].relatedCommits) + 2 * Len(result.value[i].relatedPRs)

\* A correlation with related commits and related pull requests
C13_Witness ==
  /\ Correlated
  /\ \E i \in 1..Len(result.value) :
       /\ Len(result.value[i].relatedCommits) = 2
       /\ Len(result.value[i].relatedPRs) > 0

\* The keywords of an issue: its identifier and the words of its title that are
\* longer than 3 characters, in lower case
KeywordSet(issue) ==
  LET words == split(toLowerCase(issue.title))
  IN  {toLowerCase(issue.identifier)}
        \cup {words[k] : k \in {n \in 1..Len(words) : Len(words[n]) > 3}}

ContainsKeyword(issue, text) ==
  \E keyword \in KeywordSet(issue) : includes(toLowerCase(text), keyword)

\* The author identity of a commit: its login, or its email when it has no login
AuthorIdentity(commit) ==
  IF IsSome(commit.login) /\ Get(commit.login) # "" THEN commit.login ELSE commit.email

\* The related commits and pull requests the call found for an issue: those of
\* its correlation, or none when the issue has no correlation
FoundFor(issue) ==
  LET at == {k \in 1..Len(result.value) : result.value[k].issue = issue}
  IN  IF at = {} THEN [relatedCommits |-> <<>>, relatedPRs |-> <<>>]
      ELSE result.value[CHOOSE k \in at : TRUE]

PullRequestMatches(issue, pr) ==
  \/ pr.login = Some(Get(issue.assignee).name)
  \/ ContainsKeyword(issue, pr.title)
  \/ ContainsKeyword(issue, IF IsSome(pr.body) THEN Get(pr.body) ELSE "")

\* The related commits and pull requests of every assigned issue are those that
\* satisfy the two conditions
RelatedExactly(CommitMatches(_, _)) ==
  (Correlated /\ result.error = None) =>
    \A i \in 1..Len(issues) :
      IsSome(issues[i].assignee) =>
        LET found == FoundFor(issues[i])
        IN  /\ \A c \in 1..Len(commits) :
                 Contains(found.relatedCommits, commits[c]) <=> CommitMatches(issues[i], commits[c])
            /\ \A p \in 1..Len(pullRequests) :
                 Contains(found.relatedPRs, pullRequests[p])
                   <=> PullRequestMatches(issues[i], pullRequests[p])

\* The author identity, login or email, is the assignee's email or name
IdentityMatches(issue, commit) ==
  \/ AuthorIdentity(commit) = Get(issue.assignee).email
  \/ AuthorIdentity(commit) = Some(Get(issue.assignee).name)
  \/ ContainsKeyword(issue, commit.message)

\* The author identity is the assignee's email, or the login is the assignee's name
LoginMatches(issue, commit) ==
  \/ AuthorIdentity(commit) = Get(issue.assignee).email
  \/ commit.login = Some(Get(issue.assignee).name)
  \/ ContainsKeyword(issue, commit.message)

C28_NoIdentityNoMatch ==
  (Correlated /\ result.error = None) =>
    \A k \in 1..Len(result.value) :
      LET c == result.value[k]
      IN  Get(c.issue.assignee).email = None =>
            \A n \in 1..Len(c.relatedCommits) :
              LET commit == c.relatedCommits[n]
              IN  \/ commit.login # None
                  \/ commit.email # None
                  \/ ContainsKeyword(c.issue, commit.message)

\* C30: the list correlateLinearWithGitHub returns is in descending order of
\* activityScore: of two adjacent correlations the earlier one's score is >= the
\* later one's.
C30_DescendingActivity ==
  (Correlated /\ result.error = None) =>
    \A k \in 1..(Len(result.value) - 1) :
      result.value[k].activityScore >= result.value[k + 1].activityScore

\* Two correlations of different scores, returned in the other order than their
\* issues were given
C30_Witness ==
  /\ Correlated
  /\ result.error = None
  /\ Len(result.value) = 2
  /\ result.value[1].activityScore > result.value[2].activityScore
  /\ result.value[1].issue = issues[2]
  /\ result.value[2].issue = issues[1]

---------------------------------------------------------------------------
(* Workload recommendations (LinearAPI).                                   *)
(* A team summary is a record                                              *)
(*   memberPerformance : the members, in the order of Object.values        *)
(*   teamIssues        : the recent issues of the team                     *)
(* and a member a record [assignee, metrics], metrics being what            *)
(* calculateVelocityMetrics returns for the member's issues.               *)

Member(name, completedCount, totalEstimate, avgTimeToComplete) ==
  [assignee |-> [id |-> name, name |-> name, displayName |-> name, email |-> None],
   metrics |-> [completedCount |-> completedCount,
                totalEstimate |-> totalEstimate,
                avgTimeToComplete |-> avgTimeToComplete]]

M1 == Member("ann", 13, 30, Fin(1))
M2 == Member("ben", 7, 10, Fin(5))
M3 == Member("cat", 14, 20, Fin(1))
M4 == Member("dan", 0, 0, Fin(0))
M5 == Member("eve", 10, 20, Fin(3))
M6 == Member("fay", 13, 60, Rat(19, 2))
MemberPool == {M1, M2, M3, M4, M5, M6}

TeamIssuesPool == {<<>>, <<I4>>, <<H1, H3>>, <<H1, I2, I4>>}

CompletedCountOf(m) == Fin(m.metrics.completedCount)
TotalEstimateOf(m) == Fin(m.metrics.totalEstimate)
AvgTimeToCompleteOf(m) == m.metrics.avgTimeToComplete

\* m.assignee.displayName || m.assignee.name
MemberName(m) == IF m.assignee.displayName # "" THEN m.assignee.displayName ELSE m.assignee.name

\* completedCount >= avg * 1.3 && avgTimeToComplete < avgTime * 0.8
IsOverPerformerInclusive(m, avgCompletedCount, avgTimeToComplete) ==
  /\ Ge(CompletedCountOf(m), Mul(avgCompletedCount, Rat(13, 10)))
  /\ Lt(AvgTimeToCompleteOf(m), Mul(avgTimeToComplete, Rat(4, 5)))

\* completedCount > avg * 1.3 || avgTimeToComplete < avgTime * 0.8
IsOverPerformerEither(m, avgCompletedCount, avgTimeToComplete) ==
  \/ Gt(CompletedCountOf(m), Mul(avgCompletedCount, Rat(13, 10)))
  \/ Lt(AvgTimeToCompleteOf(m), Mul(avgTimeToComplete, Rat(4, 5)))

\* completedCount > avgCompletedCount * 1.3 && avgTimeToComplete < avgTimeToComplete * 0.8
IsOverPerformer(m, avgCompletedCount, avgTimeToComplete) ==
  /\ Gt(CompletedCountOf(m), Mul(avgCompletedCount, Rat(13, 10)))
  /\ Lt(AvgTimeToCompleteOf(m), Mul(avgTimeToComplete, Rat(4, 5)))

\* completedCount < avgCompletedCount * 0.7 || avgTimeToComplete > avgTimeToComplete * 1.5
IsUnderPerformer(m, avgCompletedCount, avgTimeToComplete) ==
  \/ Lt(CompletedCountOf(m), Mul(avgCompletedCount, Rat(7, 10)))
  \/ Gt(AvgTimeToCompleteOf(m), Mul(avgTimeToComplete, Rat(3, 2)))

\* totalEstimate > avgStoryPoints * 1.5
IsOverloaded(m, avgStoryPoints) == Gt(TotalEstimateOf(m), Mul(avgStoryPoints, Rat(3, 2)))

\* totalEstimate < avgStoryPoints * 0.5
IsUnderutilized(m, avgStoryPoints) == Lt(TotalEstimateOf(m), Mul(avgStoryPoints, Rat(1, 2)))

Recommendation(type, priority, title, description, actionItems, members) ==
  [type |-> type, priority |-> priority, title |-> title, description |-> description,
   actionItems |-> actionItems, members |-> members]

\* The recommendation of one category of members, when the category is not empty
MemberRecommendation(category, type, priority, title, text, actionItems) ==
  IF Len(category) > 0
  THEN <<Recommendation(type, priority, title, ToString(Len(category)) \o text,
                        actionItems, Some(MapSeq(category, MemberName)))>>
  ELSE <<>>

\* !issue.estimate
LacksEstimate(issue) == issue.estimate = 0

\* const priorityOrder = { high: 3, medium: 2, low: 1 }
priorityOrder == [high |-> 3, medium |-> 2, low |-> 1]

\* Every priority weighs the same
FlatPriority(recommendation) == Fin(2)

PriorityKey(recommendation) == Fin(priorityOrder[recommendation.priority])

\* The recommendations built for the members, whatever their number
BuildRecommendations(tp) ==
  LET members == tp.memberPerformance
      n == Fin(Len(members))
      avgCompletedCount == Div(SumSeq(MapSeq(members, CompletedCountOf)), n)
      avgStoryPoints == Div(SumSeq(MapSeq(members, TotalEstimateOf)), n)
      avgTimeToComplete == Div(SumSeq(MapSeq(members, AvgTimeToCompleteOf)), n)
      overPerformers ==
        SelectSeq(members, LAMBDA m : IsOverPerformer(m, avgCompletedCount, avgTimeToComplete))
      underPerformers ==
        SelectSeq(members, LAMBDA m : IsUnderPerformer(m, avgCompletedCount, avgTimeToComplete))
      overloaded == SelectSeq(members, LAMBDA m : IsOverloaded(m, avgStoryPoints))
      underutilized == SelectSeq(members, LAMBDA m : IsUnderutilized(m, avgStoryPoints))
      issuesWithoutEstimate == SelectSeq(tp.teamIssues, LacksEstimate)
      recommendations ==
        MemberRecommendation(overPerformers, "success", "medium",
          "High Performers Identified", " team members showing excellent velocity",
          <<"Consider assigning more complex/high-value tasks",
            "Utilize as mentors for knowledge sharing",
            "Review their practices for team adoption">>)
        \o MemberRecommendation(underPerformers, "warning", "high",
          "Performance Support Needed", " team members may need additional support",
          <<"Schedule 1:1s to understand blockers",
            "Consider pairing with high performers",
            "Review task complexity and provide guidance">>)
        \o MemberRecommendation(overloaded, "warning", "high",
          "Workload Imbalance Detected", " team members have high story point loads",
          <<"Review current sprint commitments",
            "Redistribute tasks from overloaded to available members",
            "Consider breaking down large tasks">>)
        \o MemberRecommendation(underutilized, "info", "medium",
          "Capacity Available", " team members have additional capacity",
          <<"Assign additional tasks or stretch goals",
            "Involve in cross-team initiatives",
            "Consider training or skill development opportunities">>)
        \o (IF Len(issuesWithoutEstimate) > 0
            THEN <<Recommendation("info", "medium", "Estimation Coverage",
                     ToString(Len(issuesWithoutEstimate)) \o " issues lack story point estimates",
                     <<"Schedule estimation sessions for unestimated work",
                       "Establish estimation guidelines for the team",
                       "Review and refine estimation processes">>,
                     None)>>
            ELSE <<>>)
  IN  sortDescending(recommendations, MapSeq(recommendations, PriorityKey))

\* Recommendations built without a look at the number of members
recommendWithoutGuard(tp) == BuildRecommendations(tp)

\* if (members.length === 0) return recommendations
generateWorkloadRecommendations(tp) ==
  IF Len(tp.memberPerformance) = 0 THEN <<>> ELSE BuildRecommendations(tp)

MaxMembers == 3

\* A team summary as getTeamPerformance hands it over
InitTeam ==
  /\ teamPerformance \in [memberPerformance : DistinctSeqs(MemberPool, MaxMembers),
                          teamIssues : TeamIssuesPool]
  /\ linearData = Unused
  /\ userPerformance = Unused
  /\ personalVelocity = Unused
  /\ issues = Unused
  /\ commits = Unused
  /\ pullRequests = Unused
  /\ dataCorrelations = <<>>
  /\ adjustedScore = Unused
  /\ SignedOut
  /\ op = "ready"
  /\ calls = 0
  /\ result = Unused

\* api.generateWorkloadRecommendations(performance)
GenerateWorkloadRecommendations ==
  /\ op = "ready"
  /\ op' = "generateWorkloadRecommendations"
  /\ calls' = 1
  /\ result' = generateWorkloadRecommendations(teamPerformance)
  /\ UNCHANGED <<linearData, userPerformance, personalVelocity, issues,
                 commits, pullRequests, teamPerformance, dataCorrelations,
                 adjustedScore, session>>

NextTeam == GenerateWorkloadRecommendations
SpecTeam == InitTeam /\ [][NextTeam]_vars

---------------------------------------------------------------------------
(* Claims about the workload recommendations (SpecTeam).                   *)

Recommended == op = "generateWorkloadRecommendations"

TeamMembers == teamPerformance.memberPerformance

\* The sum of the members' completedCount
TotalCompleted == SumInts([i \in 1..Len(TeamMembers) |-> TeamMembers[i].metrics.completedCount])

\* completedCount = 1.3 * (TotalCompleted / number of members)
AtOverPerformerBoundary(m) ==
  10 * m.metrics.completedCount * Len(TeamMembers) = 13 * TotalCompleted

\* The members the recommendation with this title names
NamedIn(title) ==
  UNION {{result[r].members[1][k] : k \in 1..Len(result[r].members[1])} :
           r \in {q \in 1..Len(result) : result[q].title = title}}

\* C9: a member whose completedCount is exactly 1.3 times the team average is
\* not among the over-performers, whatever the member's avgTimeToComplete.
C9_BoundaryNotOverPerformer ==
  Recommended =>
    \A i \in 1..Len(TeamMembers) :
      AtOverPerformerBoundary(TeamMembers[i]) =>
        MemberName(TeamMembers[i]) \notin NamedIn("High Performers Identified")

\* A member at the boundary who has completed issues and is faster than 0.8
\* times the team's average time
C9_Witness ==
  /\ Recommended
  /\ \E i \in 1..Len(TeamMembers) :
       /\ AtOverPerformerBoundary(TeamMembers[i])
       /\ TeamMembers[i].metrics.completedCount > 0
       /\ Lt(Mul(AvgTimeToCompleteOf(TeamMembers[i]), Fin(Len(TeamMembers))),
             Mul(SumSeq(MapSeq(TeamMembers, AvgTimeToCompleteOf)), Rat(4, 5)))

\* The place of a recommendation in the order the code pushes them
EmissionRank(title) ==
  CASE title = "High Performers Identified" -> 1
    [] title = "Performance Support Needed" -> 2
    [] title = "Workload Imbalance Detected" -> 3
    [] title = "Capacity Available" -> 4
    [] OTHER -> 5

\* C23: the recommendations are returned by descending priority (high, then
\* medium, then low), and those of equal priority keep the order in which
\* they were emitted: over-performers, under-performers, overloaded,
\* underutilized.
C23_SortedByPriorityStable ==
  Recommended =>
    \A i, j \in 1..Len(result) :
      i < j =>
        \/ priorityOrder[result[i].priority] > priorityOrder[result[j].priority]
        \/ /\ result[i].priority = result[j].priority
           /\ EmissionRank(result[i].title) < EmissionRank(result[j].title)

\* All four categories of members are recommended at once
C23_Witness ==
  /\ Recommended
  /\ {"High Performers Identified", "Performance Support Needed",
      "Workload Imbalance Detected", "Capacity Available"}
       \subseteq {result[r].title : r \in 1..Len(result)}

\* completedCount, totalEstimate and avgTimeToComplete are all at least zero
NonNegativeMetrics(m) ==
  /\ m.metrics.completedCount >= 0
  /\ m.metrics.totalEstimate >= 0
  /\ Ge(AvgTimeToCompleteOf(m), Fin(0))

NonNegativeTeam == \A i \in 1..Len(TeamMembers) : NonNegativeMetrics(TeamMembers[i])

\* C29: when every member's completedCount, totalEstimate and
\* avgTimeToComplete are non-negative, no member is named both among the
\* over-performers and the under-performers, and no member is named both
\* among the overloaded and the underutilized.
C29_CategoriesExclusive ==
  (Recommended /\ NonNegativeTeam) =>
    /\ NamedIn("High Performers Identified") \cap NamedIn("Performance Support Needed") = {}
    /\ NamedIn("Workload Imbalance Detected") \cap NamedIn("Capacity Available") = {}

\* A team with an over-performer beside an under-performer and an overloaded
\* member beside an underutilized one
C29_Witness ==
  /\ Recommended
  /\ NonNegativeTeam
  /\ NamedIn("High Performers Identified") # {}
  /\ NamedIn("Performance Support Needed") # {}
  /\ NamedIn("Workload Imbalance Detected") # {}
  /\ NamedIn("Capacity Available") # {}

---------------------------------------------------------------------------
(* The insights of the correlation panel (CommentAnalysis).                *)

PositiveRatio(c) == Gt(c.velocityRatio, Fin(0))
VelocityRatioOf(c) == c.velocityRatio

\* c.issue.estimate > 5 && c.activityScore <= 3
IsStuckUpToThree(c) == c.issue.estimate > 5 /\ c.activityScore <= 3

\* c.issue.estimate > 5 && c.activityScore < 3
IsStuckIssue(c) == c.issue.estimate > 5 /\ c.activityScore < 3

\* c.issue.estimate < 3 && c.activityScore > 10
IsOveractiveIssue(c) == c.issue.estimate < 3 /\ c.activityScore > 10

\* `${c.issue.estimate}`: the estimate of an unestimated issue is null
EstimateText(issue) == IF issue.estimate = 0 THEN "null" ELSE ToString(issue.estimate)

\* `${c.issue.identifier}: ${c.issue.assignee.displayName}`
ContributorItem(c) == c.issue.identifier \o ": " \o Get(c.issue.assignee).displayName

\* `${c.issue.identifier}: ${c.issue.estimate} pts, ${c.activityScore} activity`
ActivityItem(c) ==
  c.issue.identifier \o ": " \o EstimateText(c.issue) \o " pts, "
    \o ToString(c.activityScore) \o " activity"

Insight(type, title, description, items) ==
  [type |-> type, title |-> title, description |-> description, items |-> items]

\* The insights built for the correlations, whatever their number
BuildInsights(cs) ==
  LET positive == SelectSeq(cs, PositiveRatio)
      avgVelocityRatio == Div(SumSeq(MapSeq(positive, VelocityRatioOf)), Fin(Len(positive)))
      highPerformers ==
        SelectSeq(cs, LAMBDA c : Gt(c.velocityRatio, avgVelocityRatio) /\ PositiveRatio(c))
      stuckIssues == SelectSeq(cs, IsStuckIssue)
      overactiveIssues == SelectSeq(cs, IsOveractiveIssue)
  IN  (IF Len(highPerformers) > 0
       THEN <<Insight("success", "High Velocity Contributors",
                ToString(Len(highPerformers))
                  \o " issues showing excellent story point to activity ratio",
                MapSeq(Slice(highPerformers, 3), ContributorItem))>>
       ELSE <<>>)
      \o (IF Len(stuckIssues) > 0
          THEN <<Insight("warning", "Potentially Stuck Issues",
                   ToString(Len(stuckIssues)) \o " high-point issues with low GitHub activity",
                   MapSeq(Slice(stuckIssues, 3), ActivityItem))>>
          ELSE <<>>)
      \o (IF Len(overactiveIssues) > 0
          THEN <<Insight("info", "Scope Creep Candidates",
                   ToString(Len(overactiveIssues))
                     \o " low-point issues with high activity (possible scope creep)",
                   MapSeq(Slice(overactiveIssues, 3), ActivityItem))>>
          ELSE <<>>)

\* if (data.correlations.length === 0) return []
getPerformanceInsights(cs) == IF Len(cs) = 0 THEN <<>> ELSE BuildInsights(cs)

\* getPerformanceInsights(), called when the panel renders
GetPerformanceInsights ==
  /\ op \in {"ready", "correlateLinearWithGitHub", "generateWorkloadRecommendations"}
  /\ op' = "getPerformanceInsights"
  /\ calls' = 1
  /\ result' = getPerformanceInsights(dataCorrelations)
  /\ UNCHANGED <<linearData, userPerformance, personalVelocity, issues,
                 commits, pullRequests, teamPerformance, dataCorrelations,
                 adjustedScore, session>>

---------------------------------------------------------------------------
(* The estimator, the correlator and the recommendations side by side, on  *)
(* the issues of one workspace.                                            *)

WorkspaceIssuePool == {H1, H3, H7, I1, I2, I4}

\* commits and pull requests of the repository
ActivityPool ==
  {[commits |-> <<>>, pullRequests |-> <<>>],
   [commits |-> <<K2>>, pullRequests |-> <<>>],
   [commits |-> <<K1, K4, K3>>, pullRequests |-> <<P2, P1>>]}

TeamSummaryPool ==
  {[memberPerformance |-> <<>>, teamIssues |-> <<>>],
   [memberPerformance |-> <<>>, teamIssues |-> <<I4>>],
   [memberPerformance |-> <<M1, M2>>, teamIssues |-> <<H1, I2, I4>>],
   [memberPerformance |-> <<M3, M6, M4>>, teamIssues |-> <<H1, H3>>]}

InitApp ==
  /\ linearData = ReferenceHistory
  /\ userPerformance = [userId |-> Some(Alice.id)]
  /\ personalVelocity = Unused
  /\ issues \in DistinctSeqs(WorkspaceIssuePool, MaxIssues)
  /\ \E activity \in ActivityPool :
       commits = activity.commits /\ pullRequests = activity.pullRequests
  /\ teamPerformance \in TeamSummaryPool
  /\ dataCorrelations = <<>>
  /\ adjustedScore = Unused
  /\ SignedOut
  /\ op = "new"
  /\ calls = 0
  /\ result = Unused

NextApp ==
  \/ Construct
  \/ EstimateMultipleIssues
  \/ GetPrioritizationRecommendations
  \/ CorrelateLinearWithGitHub
  \/ GetPerformanceInsights
  \/ GenerateWorkloadRecommendations
SpecApp == InitApp /\ [][NextApp]_vars

---------------------------------------------------------------------------
(* Claims about the whole workspace (SpecApp).                             *)

\* C11: generateWorkloadRecommendations returns [] for a summary without
\* members, and getPerformanceInsights returns [] when there is no correlation;
\* neither raises an error.
C11_EmptyInputsGiveNoInsights ==
  /\ (op = "generateWorkloadRecommendations" /\ teamPerformance.memberPerformance = <<>>)
       => result = <<>>
  /\ (op = "getPerformanceInsights" /\ dataCorrelations = <<>>) => result = <<>>

\* A summary without members whose issues lack estimates
C11_Witness ==
  /\ op = "generateWorkloadRecommendations"
  /\ teamPerformance.memberPerformance = <<>>
  /\ \E i \in 1..Len(teamPerformance.teamIssues) : teamPerformance.teamIssues[i].estimate = 0
  /\ result = <<>>

\* The operations that take lists of issues, commits, pull requests or a team summary
ListOperations ==
  {"estimateMultipleIssues", "getPrioritizationRecommendations",
   "correlateLinearWithGitHub", "generateWorkloadRecommendations"}

\* C18: estimateMultipleIssues, getPrioritizationRecommendations,
\* correlateLinearWithGitHub and generateWorkloadRecommendations never change
\* their inputs: the issue list (content and order), each issue, the commits,
\* the pull requests and the team summary are the same after the call.
C18_InputsNotMutated ==
  [][op' \in ListOperations =>
       /\ issues' = issues
       /\ commits' = commits
       /\ pullRequests' = pullRequests
       /\ teamPerformance' = teamPerformance
       /\ linearData' = linearData]_vars

\* A prioritization whose sorted output is in another order than the batch
C18_Witness ==
  /\ op = "getPrioritizationRecommendations"
  /\ Len(issues) = 2
  /\ result.recommended[1].issue = issues[2]
  /\ result.recommended[2].issue = issues[1]

---------------------------------------------------------------------------
(* The complexity analysis of one issue, over texts and label sets.        *)

\* n words of one letter, separated by single spaces
RECURSIVE WordsOfLength(_)
WordsOfLength(n) ==
  IF n = 1 THEN "w"
  ELSE WordsOfLength(n \div 2) \o " " \o WordsOfLength(n - (n \div 2))

\* Titles and descriptions with many keywords of one kind, with none, and long ones
TitlePool ==
  {"Refactor database migration API security", "Fix typo text", "Plan",
   WordsOfLength(51), WordsOfLength(101)}
DescriptionPool == {None, Some("Change button color style"), Some("Implement OAuth")}

LabelPool == {"epic", "Feature", "research", "bug", "hotfix", "UI"}
MaxLabels == 3

\* An issue of the given text and labels; labels is None when the issue has none
TextIssue(title, description, labels) ==
  Issue("DEV-20", title, description, labels, 3, None, "unstarted", None, 0, Some(20), None)

InitComplexity ==
  /\ \E title \in TitlePool, description \in DescriptionPool,
        labels \in {None} \cup {Some(l) : l \in DistinctSeqs(LabelPool, MaxLabels)} :
       issues = <<TextIssue(title, description, labels)>>
  /\ linearData = <<>>
  /\ userPerformance = [userId |-> Some(Alice.id)]
  /\ personalVelocity = Unused
  /\ commits = Unused
  /\ pullRequests = Unused
  /\ teamPerformance = Unused
  /\ dataCorrelations = <<>>
  /\ adjustedScore = Unused
  /\ SignedOut
  /\ op = "ready"
  /\ calls = 0
  /\ result = Unused

\* estimator.analyzeIssueComplexity(issue)
AnalyzeIssueComplexity ==
  /\ op = "ready"
  /\ op' = "analyzeIssueComplexity"
  /\ calls' = 1
  /\ result' = AnalysisOf(issues[1],
                         analyzeTextComplexity(issues[1].title, issues[1].description))
  /\ UNCHANGED <<linearData, userPerformance, personalVelocity, issues,
                 commits, pullRequests, teamPerformance, dataCorrelations,
                 adjustedScore, session>>

NextComplexity == AnalyzeIssueComplexity
SpecComplexity == InitComplexity /\ [][NextComplexity]_vars

\* C14: analyzeTextComplexity returns a value in [0.5, 3] and
\* analyzeLabelComplexity a value in [0.5, 2], for every title, description and
\* label set; labelComplexity is 1 when the issue has no labels.
C14_ComplexityBounds ==
  op = "analyzeIssueComplexity" =>
    /\ Ge(result.textComplexity, Rat(1, 2)) /\ Le(result.textComplexity, Fin(3))
    /\ Ge(result.labelComplexity, Rat(1, 2)) /\ Le(result.labelComplexity, Fin(2))
    /\ (issues[1].labels = None \/ issues[1].labels = Some(<<>>))
         => result.labelComplexity = Fin(1)

\* Five technical keywords in the title, three labels that lower the score
C14_Witness ==
  /\ op = "analyzeIssueComplexity"
  /\ issues[1].title = "Refactor database migration API security"
  /\ issues[1].labels = Some(<<"bug", "hotfix", "UI">>)
  /\ result.textComplexity = Fin(3)
  /\ result.labelComplexity = Rat(1, 2)

---------------------------------------------------------------------------
(* The rounding of one adjusted score, over quarters of a point.           *)

MaxScore == 40

\* Scores from -2 to MaxScore in steps of a quarter
ScorePool == {Rat(n, 4): n \in (0 - 8)..(4 * MaxScore)}

InitRound ==
  /\ adjustedScore \in ScorePool
  /\ SignedOut
  /\ linearData = <<>>
  /\ userPerformance = [userId |-> Some(Alice.id)]
  /\ personalVelocity = Unused
  /\ issues = <<>>
  /\ commits = Unused
  /\ pullRequests = Unused
  /\ teamPerformance = Unused
  /\ dataCorrelations = Unused
  /\ op = "ready"
  /\ calls = 0
  /\ result = Unused

\* estimator.roundToFibonacci(adjustedEstimate)
RoundToFibonacci ==
  /\ op = "ready"
  /\ op' = "roundToFibonacci"
  /\ calls' = 1
  /\ result' = roundToFibonacci(adjustedScore)
  /\ UNCHANGED <<linearData, userPerformance, personalVelocity, issues,
                 commits, pullRequests, teamPerformance, dataCorrelations,
                 adjustedScore, session>>

\* suggestedPoints: fibonacciEstimate, alternatives: this.generateAlternatives(fibonacciEstimate)
GenerateAlternatives ==
  /\ op = "roundToFibonacci"
  /\ op' = "generateAlternatives"
  /\ calls' = calls + 1
  /\ result' = [suggestedPoints |-> result, alternatives |-> generateAlternatives(result)]
  /\ UNCHANGED <<linearData, userPerformance, personalVelocity, issues,
                 commits, pullRequests, teamPerformance, dataCorrelations,
                 adjustedScore, session>>

NextRound == RoundToFibonacci \/ GenerateAlternatives
SpecRound == InitRound /\ [][NextRound]_vars

\* The distance of a sequence value from the score
DistanceTo(f) == MathAbs(Sub(Fin(f), adjustedScore))

FibonacciValues == {FIBONACCI_SEQUENCE[k] : k \in 1..Len(FIBONACCI_SEQUENCE)}

\* C20: roundToFibonacci returns the sequence value with the smallest absolute
\* difference to the score, and the lower one of two values that are equally
\* close: 2.5 -> 2, 4 -> 3, 6.5 -> 5, 10.5 -> 8; a score >= 34 gives 34 and a
\* score <= 1 gives 1.
C20_RoundsToClosestLowerOnTie ==
  op = "roundToFibonacci" =>
    /\ result \in FibonacciValues
    /\ \A f \in FibonacciValues :
         /\ Le(DistanceTo(result), DistanceTo(f))
         /\ DistanceTo(f) = DistanceTo(result) => result <= f
    /\ adjustedScore = Rat(5, 2) => result = 2
    /\ adjustedScore = Fin(4) => result = 3
    /\ adjustedScore = Rat(13, 2) => result = 5
    /\ adjustedScore = Rat(21, 2) => result = 8
    /\ Ge(adjustedScore, Fin(34)) => result = 34
    /\ Le(adjustedScore, Fin(1)) => result = 1

\* A score half-way between 8 and 13
C20_Witness ==
  /\ op = "roundToFibonacci"
  /\ adjustedScore = Rat(21, 2)
  /\ DistanceTo(8) = DistanceTo(13)
  /\ result = 8

AlternativesGiven == op = "generateAlternatives"

\* The points of the alternatives, in the order returned
AlternativePoints == [k \in 1..Len(result.alternatives) |-> result.alternatives[k].points]

\* The sequence values on one side of the suggested points
ValuesBelow == {f \in FibonacciValues : f < result.suggestedPoints}
ValuesAbove == {f \in FibonacciValues : f > result.suggestedPoints}

\* C25: the alternatives are the sequence value immediately below the
\* suggested points (if any) followed by the value immediately above (if
\* any): the single entry 2 for 1 point, the single entry 21 for 34 points,
\* two entries otherwise; no alternative equals the suggested points.
C25_AlternativesAreNeighbours ==
  AlternativesGiven =>
    /\ AlternativePoints =
         (IF ValuesBelow = {} THEN <<>>
          ELSE <<CHOOSE f \in ValuesBelow : \A g \in ValuesBelow : g <= f>>)
         \o (IF ValuesAbove = {} THEN <<>>
             ELSE <<CHOOSE f \in ValuesAbove : \A g \in ValuesAbove : g >= f>>)
    /\ result.suggestedPoints = 1 => AlternativePoints = <<2>>
    /\ result.suggestedPoints = 34 => AlternativePoints = <<21>>
    /\ result.suggestedPoints \notin {1, 34} => Len(AlternativePoints) = 2
    /\ \A k \in 1..Len(AlternativePoints) : AlternativePoints[k] # result.suggestedPoints

\* Alternatives on both sides of 8 points
C25_Witness ==
  /\ AlternativesGiven
  /\ result.suggestedPoints = 8
  /\ AlternativePoints = <<5, 13>>

---------------------------------------------------------------------------
(* The search for similar issues, over histories with up to MaxCandidates  *)
(* issues: the issues of LongHistory at a set of positions, in the         *)
(* tracker's order or in the reverse order.                                *)

MaxCandidates == 8

\* The elements of seq at the positions of the set, in ascending order
RECURSIVE AtPositions(_, _)
AtPositions(seq, positions) ==
  IF positions = {} THEN <<>>
  ELSE LET first == CHOOSE p \in positions : \A q \in positions : p <= q
       IN  <<seq[first]>> \o AtPositions(seq, positions \ {first})

Reversed(seq) == [k \in 1..Len(seq) |-> seq[Len(seq) + 1 - k]]

LongHistories ==
  {AtPositions(seq, positions) :
     seq \in {LongHistory, Reversed(LongHistory)},
     positions \in {ps \in SUBSET (1..Len(LongHistory)) : Cardinality(ps) <= MaxCandidates}}

InitSimilar == InitEstimator(LongHistories)

\* estimator.findSimilarIssues(issue)
FindSimilarIssues ==
  \E issue \in IssuePool :
    /\ op = "ready"
    /\ issues' = <<issue>>
    /\ op' = "findSimilarIssues"
    /\ calls' = 1
    /\ result' = findSimilarIssues(issue)
    /\ UNCHANGED <<linearData, userPerformance, personalVelocity,
                   commits, pullRequests, teamPerformance, dataCorrelations,
                   adjustedScore, session>>

NextSimilar == Construct \/ FindSimilarIssues
SpecSimilar == InitSimilar /\ [][NextSimilar]_vars

Searched == op = "findSimilarIssues"

\* The issue at position k of the history is another issue than the one
\* estimated, completed and estimated, and its title overlaps by more than 0.3
\* or its team id equals the issue's
IsMatch(k) ==
  LET candidate == linearData[k]
  IN  /\ candidate.id # issues[1].id
      /\ candidate.state = "completed"
      /\ candidate.estimate > 0
      /\ \/ Gt(calculateTextSimilarity(issues[1].title, candidate.title), Rat(3, 10))
         \/ candidate.team = issues[1].team

Matches == {k \in 1..Len(linearData) : IsMatch(k)}

C27_TeamMatchNeedsTeams ==
  Searched =>
    \A k \in 1..Len(result) :
      (issues[1].team = None /\ result[k].team = None)
        => Gt(calculateTextSimilarity(issues[1].title, result[k].title), Rat(3, 10))

---------------------------------------------------------------------------
(* The insights over the correlations the panel holds after a fetch: up to *)
(* MaxCorrelations issues, each with few or many commits and pull requests.*)

MaxCorrelations == 5

\* The tracker's issues that have an assignee, in the order fetched
InsightIssues == <<H1, H4, H2, H6, H5, H3, H12, I2, H10>>

\* The numbers of related commits and pull requests an issue may have
ActivityOptions(issue) ==
  IF issue.estimate > 5 THEN <<[commits |-> 2, pullRequests |-> 0], [commits |-> 1, pullRequests |-> 1]>>
  ELSE IF issue.estimate = 5 THEN <<[commits |-> 2, pullRequests |-> 0]>>
  ELSE IF issue.estimate = 3 THEN <<[commits |-> 3, pullRequests |-> 4]>>
  ELSE <<[commits |-> 2, pullRequests |-> 4], [commits |-> 3, pullRequests |-> 4]>>

\* The correlation object of an issue with these related commits and pull requests
CorrelationOf(issue, relatedCommits, relatedPRs) ==
  LET activityScore == ActivityScore(relatedCommits, relatedPRs)
  IN  [issue |-> issue,
       relatedCommits |-> relatedCommits,
       relatedPRs |-> relatedPRs,
       activityScore |-> activityScore,
       velocityRatio |-> IF issue.estimate # 0 /\ activityScore > 0
                         THEN Rat(issue.estimate, activityScore) ELSE Fin(0)]

\* The correlation of an issue with one of its activity options
CorrelationWith(issue, option) ==
  CorrelationOf(issue,
                [k \in 1..ActivityOptions(issue)[option].commits |-> IF k % 2 = 1 THEN K1 ELSE K2],
                [k \in 1..ActivityOptions(issue)[option].pullRequests |-> P1])

\* setData({ correlations }): what correlateLinearWithGitHub returned, sorted
\* by descending activity score
InitInsight ==
  /\ \E tracked \in {InsightIssues, Reversed(InsightIssues)} :
       \E positions \in {ps \in SUBSET (1..Len(InsightIssues)) : Cardinality(ps) <= MaxCorrelations} :
         \E options \in [positions -> 1..2] :
           /\ \A k \in positions : options[k] <= Len(ActivityOptions(tracked[k]))
           /\ issues = AtPositions(tracked, positions)
           /\ LET correlations ==
                    AtPositions([k \in 1..Len(tracked) |->
                                   IF k \in positions
                                   THEN CorrelationWith(tracked[k], options[k])
                                   ELSE <<>>],
                                positions)
              IN  dataCorrelations = sortDescending(correlations, MapSeq(correlations, ActivityKey))
  /\ commits = Unused
  /\ pullRequests = Unused
  /\ linearData = Unused
  /\ userPerformance = Unused
  /\ personalVelocity = Unused
  /\ teamPerformance = Unused
  /\ adjustedScore = Unused
  /\ SignedOut
  /\ op = "ready"
  /\ calls = 0
  /\ result = Unused

NextInsight == GetPerformanceInsights
SpecInsight == InitInsight /\ [][NextInsight]_vars

InsightsGiven == op = "getPerformanceInsights"

\* The positions of the correlations with estimate > 5 and activityScore < 3
StuckPositions ==
  {k \in 1..Len(dataCorrelations) :
     dataCorrelations[k].issue.estimate > 5 /\ dataCorrelations[k].activityScore < 3}

\* The positions of the correlations with estimate < 3 and activityScore > 10
OveractivePositions ==
  {k \in 1..Len(dataCorrelations) :
     dataCorrelations[k].issue.estimate < 3 /\ dataCorrelations[k].activityScore > 10}

\* The insights returned under a title
InsightsTitled(title) == SelectSeq(result, LAMBDA insight : insight.title = title)

\* An insight is there iff the category has members, and lists the first
\* three of them in the order of the correlations
ListsFirstThree(title, positions) ==
  IF positions = {}
  THEN InsightsTitled(title) = <<>>
  ELSE /\ Len(InsightsTitled(title)) = 1
       /\ Len(InsightsTitled(title)[1].items) <= 3
       /\ InsightsTitled(title)[1].items =
            MapSeq(Slice(AtPositions(dataCorrelations, positions), 3), ActivityItem)

\* C24: a correlation is listed as stuck iff its issue's estimate is above 5
\* and its activityScore below 3, and as overactive iff the estimate is below
\* 3 and the activityScore above 10; an insight is emitted for a category only
\* when the category is not empty, and lists at most 3 examples, the first 3
\* in the order of the correlations.
C24_InsightCategories ==
  InsightsGiven =>
    /\ ListsFirstThree("Potentially Stuck Issues", StuckPositions)
    /\ ListsFirstThree("Scope Creep Candidates", OveractivePositions)

\* Four stuck issues, of which three are listed, beside an overactive one and
\* issues at the limits of both categories
C24_Witness ==
  /\ InsightsGiven
  /\ Cardinality(StuckPositions) = 4
  /\ Len(InsightsTitled("Potentially Stuck Issues")[1].items) = 3
  /\ Cardinality(OveractivePositions) = 1

---------------------------------------------------------------------------
(* The GitHub sign-in of the AuthProvider (useAuth): login stores the      *)
(* token and starts fetchUserInfo, whose response arrives later, in any    *)
(* order with other logins and responses.                                  *)

MaxLogins == 3

\* The personal access tokens typed into the prompt
TokenPool == {"ghp_A", "ghp_B"}

\* What GET /user answers for a token
UserData(authToken) == [login |-> "owner of " \o authToken]

\* The mount effect: a stored token and user are taken over, if both are there
InitAuth ==
  /\ \E stored \in {None} \cup {Some(t) : t \in TokenPool} :
       /\ token = stored
       /\ user = (IF IsSome(stored) THEN Some(UserData(Get(stored))) ELSE None)
       /\ localStorage = [github_token |-> token, github_user |-> user]
  /\ requests = {}
  /\ linearData = Unused
  /\ userPerformance = Unused
  /\ personalVelocity = Unused
  /\ issues = Unused
  /\ commits = Unused
  /\ pullRequests = Unused
  /\ teamPerformance = Unused
  /\ dataCorrelations = Unused
  /\ adjustedScore = Unused
  /\ op = "ready"
  /\ calls = 0
  /\ result = Unused

estimatorVars == <<linearData, userPerformance, personalVelocity, issues,
                   commits, pullRequests, teamPerformance, dataCorrelations,
                   adjustedScore>>

\* login(), with a token typed into the prompt: the token is set and stored,
\* and fetchUserInfo(personalToken) is started without being awaited
Login ==
  \E personalToken \in TokenPool :
    /\ calls < MaxLogins
    /\ token' = Some(personalToken)
    /\ localStorage' = [localStorage EXCEPT !.github_token = Some(personalToken)]
    /\ requests' = requests \cup {[id |-> calls + 1, authToken |-> personalToken]}
    /\ calls' = calls + 1
    /\ op' = "login"
    /\ result' = Unused
    /\ UNCHANGED <<estimatorVars, user>>

\* fetchUserInfo after a response with response.ok
FetchUserInfoOk ==
  \E request \in requests :
    /\ user' = Some(UserData(request.authToken))
    /\ localStorage' = [localStorage EXCEPT !.github_user = Some(UserData(request.authToken))]
    /\ requests' = requests \ {request}
    /\ op' = "fetchUserInfo"
    /\ result' = [authToken |-> request.authToken, ok |-> TRUE]
    /\ UNCHANGED <<estimatorVars, token, calls>>

\* logout(): setUser(null), setToken(null), both keys removed
LoggedOut ==
  /\ user' = None
  /\ token' = None
  /\ localStorage' = [github_token |-> None, github_user |-> None]

\* fetchUserInfo after a response that is not ok, or a failed fetch: the catch
\* block calls logout()
FetchUserInfoFailed ==
  \E request \in requests :
    /\ LoggedOut
    /\ requests' = requests \ {request}
    /\ op' = "fetchUserInfo"
    /\ result' = [authToken |-> request.authToken, ok |-> FALSE]
    /\ UNCHANGED <<estimatorVars, calls>>

\* logout(), from the menu
Logout ==
  /\ op # "logout"
  /\ LoggedOut
  /\ op' = "logout"
  /\ result' = Unused
  /\ UNCHANGED <<estimatorVars, requests, calls>>

NextAuth == Login \/ FetchUserInfoOk \/ FetchUserInfoFailed \/ Logout
SpecAuth == InitAuth /\ [][NextAuth]_vars

\* The user is signed in with this token, and the token has been validated
SignedInWith(authToken) ==
  /\ token = Some(authToken)
  /\ user = Some(UserData(authToken))
  /\ localStorage = [github_token |-> token, github_user |-> user]

\* C26: when the validation of a token fails while the user is signed in with
\* another token that validated, the later token and its user stay in memory
\* and in local storage.
C26_StaleFailureKeepsSession ==
  [][\A current \in TokenPool :
       (/\ SignedInWith(current)
        /\ op' = "fetchUserInfo"
        /\ ~result'.ok
        /\ result'.authToken # current)
         => (token' = token /\ user' = user /\ localStorage' = localStorage)]_vars

====
